---------------------------- MODULE Spec2Model ----------------------------
(***************************************************************************)
(* FlowForge: durable saga workflow engine.                                *)
(*                                                                         *)
(* State: the workflow registry, the three groups of the state store       *)
(* (workflow instances, step executions, compensation records), the        *)
(* events in flight on the event bus, and the wall clock read by now().    *)
(* One action per engine / compensator operation and per event handler.    *)
(***************************************************************************)
EXTENDS Integers, Sequences, FiniteSets, TLC

VARIABLES
    registry,     \* workflows Map of the registry: type -> sequence of step definitions
    workflows,    \* group flowforge:workflows: workflowId -> WorkflowInstance
    steps,        \* groups flowforge:steps:<id>: <<workflowId, stepName>> -> StepExecution
    comps,        \* groups flowforge:compensations:<id>: <<workflowId, stepName>> -> CompensationRecord
    clock,        \* last value returned by now()
    bus,          \* events emitted and not yet handled
    emitted,      \* every event ever emitted -> number of emits (saturating at EmitCap)
    budget,       \* re-deliveries and counted calls made by the environment so far
    hist,         \* observations: steps that reached completed, events handled,
                  \* order of compensation dispatch
    inflight,     \* persistence calls that have read the instance and not yet written it,
                  \* handler invocations between two of their awaits
    refunds       \* group flowforge:refunds: idempotency key -> refund record

vars == <<registry, workflows, steps, comps, clock, bus, emitted, budget, hist, inflight, refunds>>

store == <<workflows, steps, comps>>

-----------------------------------------------------------------------------
(* Bounds of the model *)

MaxRedeliver == 1     \* events the bus delivers a second time
MaxPause == 1         \* pauseWorkflow calls
MaxStartCalls == 2    \* startWorkflow calls per workflow id
EmitCap == 2          \* emits of one event are counted up to this number
MaxCrash == 1         \* handler invocations that stop before their emit
MaxOps == 3           \* persistence calls made as separate read and write steps
MaxSignals == 1       \* calls of the signal endpoint
MaxStray == 1         \* events on the bus that no handler of the engine emitted

WorkflowIds == {"wf1", "wf2"}
MainIds == {"wf1"}

Keys == {"k", "_lastSignal", "_waitingFor"}
Absent == 0
Ctx(v) == [key \in Keys |-> IF key = "k" THEN v ELSE Absent]
EmptyCtx == Ctx(Absent)
Inputs == {EmptyCtx}
\* The output a step handler reports for a step
OutputsOf(stepName) ==
    {Ctx(IF stepName \in {"Credit", "ChargePayment", "CreateShipment", "Complete"} THEN 2 ELSE 1)}
Payloads == {EmptyCtx}
Signals == {1}
WaitingFors == {1}
ErrorMsgs == {"boom"}

Null == "null"            \* currentStep: null
Undef == "undefined"      \* optional field that is not set
NoComp == "undefined"     \* StepDefinition.compensation not set

-----------------------------------------------------------------------------
(* Workflow definitions *)

Step(n, t, c) == [name |-> n, topic |-> t, compensation |-> c]

OrderWorkflowDefinition ==
    << Step("ValidateOrder", "order.validate", NoComp),
       Step("ChargePayment", "order.charge-payment", "RefundPayment"),
       Step("ReserveInventory", "order.reserve-inventory", "ReleaseInventory"),
       Step("CreateShipment", "order.create-shipment", "CancelShipment"),
       Step("NotifyUser", "order.notify-user", NoComp),
       Step("Complete", "order.complete", NoComp) >>

\* A three-step definition registered by a caller of workflowRegistry.register:
\* two compensable steps followed by a step without compensation.
TransferDefinition ==
    << Step("Debit", "transfer.debit", "UndoDebit"),
       Step("Credit", "transfer.credit", "UndoCredit"),
       Step("Receipt", "transfer.receipt", NoComp) >>

\* a definition without steps: register accepts it
EmptyDefinition == <<>>

Definitions ==
    [type \in {"OrderWorkflow", "Transfer", "Empty"} |->
        IF type = "OrderWorkflow" THEN OrderWorkflowDefinition
        ELSE IF type = "Transfer" THEN TransferDefinition
        ELSE EmptyDefinition]

MainTypes == {"Transfer"}

StepNames == UNION {{Definitions[t][i].name : i \in 1..Len(Definitions[t])} : t \in DOMAIN Definitions}

-----------------------------------------------------------------------------
(* Workflow registry *)

RegistryHas(reg, type) == type \in DOMAIN reg

IndexOf(def, stepName) ==
    IF \E i \in 1..Len(def) : def[i].name = stepName
    THEN CHOOSE i \in 1..Len(def) : def[i].name = stepName /\ \A j \in 1..(i-1) : def[j].name # stepName
    ELSE 0

\* getStep: the step definition, or Undef
GetStep(reg, type, stepName) ==
    IF ~RegistryHas(reg, type) THEN Undef
    ELSE IF IndexOf(reg[type], stepName) = 0 THEN Undef
    ELSE reg[type][IndexOf(reg[type], stepName)]

HasStep(reg, type, stepName) ==
    RegistryHas(reg, type) /\ IndexOf(reg[type], stepName) # 0

HasFirstStep(reg, type) == RegistryHas(reg, type) /\ Len(reg[type]) > 0

GetFirstStep(reg, type) == reg[type][1]

HasNextStep(reg, type, stepName) ==
    /\ RegistryHas(reg, type)
    /\ IndexOf(reg[type], stepName) # 0
    /\ IndexOf(reg[type], stepName) # Len(reg[type])

GetNextStep(reg, type, stepName) == reg[type][IndexOf(reg[type], stepName) + 1]

IsLastStep(reg, type, stepName) ==
    /\ RegistryHas(reg, type)
    /\ Len(reg[type]) > 0
    /\ reg[type][Len(reg[type])].name = stepName

-----------------------------------------------------------------------------
(* Persistence: guards *)

ADVANCEABLE_STATUSES == {"running"}
TERMINAL_STATUSES == {"completed", "compensated", "failed"}
TERMINAL_STEP_STATUSES == {"completed", "failed", "skipped", "compensated"}

canAdvance(status) == status \in ADVANCEABLE_STATUSES
isTerminal(status) == status \in TERMINAL_STATUSES
isStepTerminal(status) == status \in TERMINAL_STEP_STATUSES

\* { ...a, ...b }
Merge(a, b) == [key \in Keys |-> IF b[key] # Absent THEN b[key] ELSE a[key]]

Put(f, key, val) == [x \in (DOMAIN f) \cup {key} |-> IF x = key THEN val ELSE f[x]]

-----------------------------------------------------------------------------
(* Persistence: workflow instances. Each operator maps the group to the    *)
(* group after the operation.                                              *)

createWorkflow(wfs, id, type, initialStep, context) ==
    Put(wfs, id, [type |-> type, status |-> "running", currentStep |-> initialStep,
                  context |-> context, failedStep |-> Undef, error |-> Undef])

NoUpdates == [currentStep |-> Undef, context |-> EmptyCtx, failedStep |-> Undef, error |-> Undef]

\* updateWorkflowStatus that keeps currentStep when the new status is terminal
updateWorkflowStatusKeepStep(wfs, id, status, updates) ==
    IF id \notin DOMAIN wfs THEN wfs
    ELSE Put(wfs, id,
             [type |-> wfs[id].type,
              context |-> Merge(wfs[id].context, updates.context),
              failedStep |-> IF updates.failedStep # Undef THEN updates.failedStep ELSE wfs[id].failedStep,
              error |-> IF updates.error # Undef THEN updates.error ELSE wfs[id].error,
              currentStep |-> IF updates.currentStep # Undef THEN updates.currentStep
                              ELSE wfs[id].currentStep,
              status |-> status])

\* updateWorkflowStatus writing the status to every instance of the group
updateWorkflowStatusAll(wfs, id, status, updates) ==
    [x \in DOMAIN wfs |-> [wfs[x] EXCEPT !.status = status]]

updateWorkflowStatus(wfs, id, status, updates) ==
    IF id \notin DOMAIN wfs THEN wfs
    ELSE Put(wfs, id,
             [type |-> wfs[id].type,
              context |-> Merge(wfs[id].context, updates.context),
              failedStep |-> IF updates.failedStep # Undef THEN updates.failedStep ELSE wfs[id].failedStep,
              error |-> IF updates.error # Undef THEN updates.error ELSE wfs[id].error,
              currentStep |-> IF updates.currentStep # Undef THEN updates.currentStep
                              ELSE IF isTerminal(status) THEN Null
                              ELSE wfs[id].currentStep,
              status |-> status])

updateWorkflowContext(wfs, id, contextUpdates) ==
    IF id \notin DOMAIN wfs THEN wfs
    ELSE IF isTerminal(wfs[id].status) THEN wfs
    ELSE Put(wfs, id, [wfs[id] EXCEPT !.context = Merge(@, contextUpdates)])

\* advanceToStep without the canAdvance guard
advanceToStepNoGuard(wfs, id, nextStep) ==
    IF id \notin DOMAIN wfs THEN wfs
    ELSE Put(wfs, id, [wfs[id] EXCEPT !.currentStep = nextStep])

advanceToStep(wfs, id, nextStep) ==
    IF id \notin DOMAIN wfs THEN wfs
    ELSE IF ~canAdvance(wfs[id].status) THEN wfs
    ELSE Put(wfs, id, [wfs[id] EXCEPT !.currentStep = nextStep])

-----------------------------------------------------------------------------
(* Persistence: step executions *)

recordStepStart(sx, id, stepName, input) ==
    IF <<id, stepName>> \in DOMAIN sx THEN sx
    ELSE Put(sx, <<id, stepName>>,
             [status |-> "running", input |-> input, output |-> EmptyCtx, error |-> Undef])

\* recordStepComplete without the terminal-overwrite guard
recordStepCompleteNoGuard(sx, id, stepName, output) ==
    IF <<id, stepName>> \notin DOMAIN sx THEN sx
    ELSE Put(sx, <<id, stepName>>,
             [sx[<<id, stepName>>] EXCEPT !.status = "completed", !.output = output])

recordStepComplete(sx, id, stepName, output) ==
    IF <<id, stepName>> \notin DOMAIN sx THEN sx
    ELSE IF isStepTerminal(sx[<<id, stepName>>].status) THEN sx
    ELSE Put(sx, <<id, stepName>>,
             [sx[<<id, stepName>>] EXCEPT !.status = "completed", !.output = output])

\* recordStepFailure without the terminal-overwrite guard
recordStepFailureNoGuard(sx, id, stepName, error) ==
    IF <<id, stepName>> \notin DOMAIN sx THEN sx
    ELSE Put(sx, <<id, stepName>>,
             [sx[<<id, stepName>>] EXCEPT !.status = "failed", !.error = error])

recordStepFailure(sx, id, stepName, error) ==
    IF <<id, stepName>> \notin DOMAIN sx THEN sx
    ELSE IF isStepTerminal(sx[<<id, stepName>>].status) THEN sx
    ELSE Put(sx, <<id, stepName>>,
             [sx[<<id, stepName>>] EXCEPT !.status = "failed", !.error = error])

markStepCompensated(sx, id, stepName) ==
    IF <<id, stepName>> \notin DOMAIN sx THEN sx
    ELSE Put(sx, <<id, stepName>>, [sx[<<id, stepName>>] EXCEPT !.status = "compensated"])

-----------------------------------------------------------------------------
(* Persistence: compensation records *)

\* registerCompensation without the check for an existing record
registerCompensationOverwrite(cx, id, stepName, compensationStep, t) ==
    Put(cx, <<id, stepName>>,
        [compensationStep |-> compensationStep, registeredAt |-> t,
         executed |-> FALSE, result |-> Undef, error |-> Undef])

\* registerCompensation stamping an existing record with the time of the call
registerCompensationRestamp(cx, id, stepName, compensationStep, t) ==
    IF <<id, stepName>> \in DOMAIN cx
    THEN Put(cx, <<id, stepName>>, [cx[<<id, stepName>>] EXCEPT !.registeredAt = t])
    ELSE Put(cx, <<id, stepName>>,
             [compensationStep |-> compensationStep, registeredAt |-> t,
              executed |-> FALSE, result |-> Undef, error |-> Undef])

registerCompensation(cx, id, stepName, compensationStep, t) ==
    IF <<id, stepName>> \in DOMAIN cx THEN cx
    ELSE Put(cx, <<id, stepName>>,
             [compensationStep |-> compensationStep, registeredAt |-> t,
              executed |-> FALSE, result |-> Undef, error |-> Undef])

Pending(cx, id) == {key \in DOMAIN cx : key[1] = id /\ ~cx[key].executed}

\* the listings by ascending registeredAt
RECURSIVE SortedListingsAscending(_, _)
SortedListingsAscending(cx, keys) ==
    IF keys = {} THEN {<<>>}
    ELSE UNION {{<<key[2]>> \o rest : rest \in SortedListingsAscending(cx, keys \ {key})} :
                key \in {k1 \in keys : \A k2 \in keys : cx[k1].registeredAt <= cx[k2].registeredAt}}

\* The possible results of getPendingCompensations: the pending records of
\* the workflow by descending registeredAt. Array.prototype.sort is stable
\* and the comparator looks at registeredAt only, so records with equal
\* registeredAt keep the order in which getGroup returned them, which the
\* store does not specify.
RECURSIVE SortedListings(_, _)
SortedListings(cx, keys) ==
    IF keys = {} THEN {<<>>}
    ELSE UNION {{<<key[2]>> \o rest : rest \in SortedListings(cx, keys \ {key})} :
                key \in {k1 \in keys : \A k2 \in keys : cx[k1].registeredAt >= cx[k2].registeredAt}}

getPendingCompensations(cx, id) == SortedListings(cx, Pending(cx, id))

\* markCompensationExecuted without the check of record.executed
markCompensationExecutedNoGuard(cx, id, stepName, result, error) ==
    IF <<id, stepName>> \notin DOMAIN cx THEN cx
    ELSE Put(cx, <<id, stepName>>,
             [cx[<<id, stepName>>] EXCEPT !.executed = TRUE, !.result = result, !.error = error])

markCompensationExecuted(cx, id, stepName, result, error) ==
    IF <<id, stepName>> \notin DOMAIN cx THEN cx
    ELSE IF cx[<<id, stepName>>].executed THEN cx
    ELSE Put(cx, <<id, stepName>>,
             [cx[<<id, stepName>>] EXCEPT !.executed = TRUE, !.result = result, !.error = error])

-----------------------------------------------------------------------------
(* Event bus *)

EXECUTE_STEP == "flowforge.execute-step"
STEP_COMPLETED == "flowforge.step-completed"
STEP_FAILED == "flowforge.step-failed"
COMPENSATE == "flowforge.compensate"
WORKFLOW_COMPLETED == "flowforge.workflow-completed"
EXECUTE_COMPENSATION == "flowforge.execute-compensation"
COMPENSATION_COMPLETED == "flowforge.compensation-completed"
COMPENSATION_FINISHED == "flowforge.compensation-finished"

\* Topics without a subscriber: emits on them are counted, nothing handles them.
Unsubscribed == {WORKFLOW_COMPLETED, COMPENSATION_FINISHED}

\* compensate.<compensationStep>
CompensateTopic(compensationStep) == "compensate." \o compensationStep

Event(topic, id, stepName) ==
    [topic |-> topic, wf |-> id, step |-> stepName, comp |-> Undef,
     ctx |-> EmptyCtx, out |-> EmptyCtx, ok |-> TRUE, err |-> Undef]

ExecuteStepEvent(id, stepName) == Event(EXECUTE_STEP, id, stepName)
StepTopicEvent(topic, id, stepName, context) == [Event(topic, id, stepName) EXCEPT !.ctx = context]
StepCompletedEvent(id, stepName, output) == [Event(STEP_COMPLETED, id, stepName) EXCEPT !.out = output]
StepFailedEvent(id, stepName, error) == [Event(STEP_FAILED, id, stepName) EXCEPT !.err = error]
CompensateEvent(id) == Event(COMPENSATE, id, Undef)
WorkflowCompletedEvent(id) == Event(WORKFLOW_COMPLETED, id, Undef)
ExecuteCompensationEvent(id, stepName, compensationStep) ==
    [Event(EXECUTE_COMPENSATION, id, stepName) EXCEPT !.comp = compensationStep]
CompensateTopicEvent(id, stepName, compensationStep, context, originalOutput) ==
    [Event(CompensateTopic(compensationStep), id, stepName) EXCEPT
        !.comp = compensationStep, !.ctx = context, !.out = originalOutput]
CompensationCompletedEvent(id, stepName, success, error) ==
    [Event(COMPENSATION_COMPLETED, id, stepName) EXCEPT !.ok = success, !.err = error]
CompensationFinishedEvent(id) == Event(COMPENSATION_FINISHED, id, Undef)

EmitCount(em, e) == IF e \in DOMAIN em THEN em[e] ELSE 0

Counted(em, events) ==
    [e \in (DOMAIN em) \cup events |->
        IF e \in events
        THEN (IF EmitCount(em, e) < EmitCap THEN EmitCount(em, e) + 1 ELSE EmitCap)
        ELSE em[e]]

\* ctx.emit of the events in out by a call that is not an event handler
Emit(out) ==
    /\ bus' = bus \cup {e \in out : e.topic \notin Unsubscribed}
    /\ emitted' = Counted(emitted, out)

\* The handler of event e ran to its end and emitted the events in out
Handled(e, out) ==
    /\ bus' = (bus \ {e}) \cup {e2 \in out : e2.topic \notin Unsubscribed}
    /\ emitted' = Counted(emitted, out)

StepTopics(reg) == UNION {{reg[t][i].topic : i \in 1..Len(reg[t])} : t \in DOMAIN reg}
CompensateTopics(reg) ==
    UNION {{CompensateTopic(reg[t][i].compensation) :
                i \in {j \in 1..Len(reg[t]) : reg[t][j].compensation # NoComp}} : t \in DOMAIN reg}

-----------------------------------------------------------------------------
(* Observations *)

CompletedNow(sx) == {key \in DOMAIN sx : sx[key].status = "completed"}

\* the events whose handling is recorded in hist.handled
Recorded(e) == IF e.topic \in {STEP_COMPLETED, COMPENSATION_COMPLETED} THEN {e} ELSE {}

\* event e was handled and left the step executions sx
Observe(e, sx) ==
    [hist EXCEPT !.completed = @ \cup CompletedNow(sx), !.handled = @ \cup Recorded(e)]

\* event e was handled and dispatched the compensation of stepName
ObserveDispatch(e, id, stepName) ==
    [hist EXCEPT !.handled = @ \cup Recorded(e),
                 !.compLog = IF \E i \in 1..Len(@) : @[i] = <<id, stepName>>
                             THEN @ ELSE Append(@, <<id, stepName>>)]

-----------------------------------------------------------------------------
(* Initial state: empty registry, empty store, nothing emitted *)

Init ==
    /\ registry = <<>>
    /\ workflows = <<>>
    /\ steps = <<>>
    /\ comps = <<>>
    /\ clock = 0
    /\ bus = {}
    /\ emitted = <<>>
    /\ budget = [redeliver |-> 0, pause |-> 0, crash |-> 0, ops |-> 0, signals |-> 0, stray |-> 0,
                 starts |-> [id \in WorkflowIds |-> 0]]
    /\ hist = [completed |-> {}, handled |-> {}, compLog |-> <<>>, errors |-> {}]
    /\ inflight = {}
    /\ refunds = <<>>

-----------------------------------------------------------------------------
(* Registry *)

\* workflowRegistry.register: throws when the type is already registered
Register(type) ==
    /\ ~RegistryHas(registry, type)
    /\ registry' = Put(registry, type, Definitions[type])
    /\ UNCHANGED <<workflows, steps, comps, clock, bus, emitted, budget, hist, inflight, refunds>>

-----------------------------------------------------------------------------
(* Engine *)

\* startWorkflow emitting without looking at the existing instance
StartWorkflowEmitsAlways(wfs, reg, type, id) ==
    {ExecuteStepEvent(id, GetFirstStep(reg, type).name)}

StartWorkflowEmits(wfs, reg, type, id) ==
    IF id \in DOMAIN wfs THEN {} ELSE {ExecuteStepEvent(id, GetFirstStep(reg, type).name)}

StartWorkflowStore(wfs, reg, type, input, id) ==
    IF id \in DOMAIN wfs THEN wfs
    ELSE createWorkflow(wfs, id, type, GetFirstStep(reg, type).name, input)

\* startWorkflow(ctx, {type, input, workflowId}); counted: a call that does
\* not throw is counted in budget.starts, at most MaxStartCalls per id
StartWorkflow(type, input, id, counted) ==
    /\ counted => budget.starts[id] < MaxStartCalls
    /\ IF ~RegistryHas(registry, type) \/ ~HasFirstStep(registry, type)
       THEN \* throws
            UNCHANGED <<workflows, bus, emitted, budget>>
       ELSE /\ workflows' = StartWorkflowStore(workflows, registry, type, input, id)
            /\ Emit(StartWorkflowEmits(workflows, registry, type, id))
            /\ budget' = IF counted THEN [budget EXCEPT !.starts[id] = @ + 1] ELSE budget
    /\ UNCHANGED <<registry, steps, comps, clock, hist, inflight, refunds>>

ExecuteStepEmits(wfs, sx, reg, id, stepName) ==
    IF id \notin DOMAIN wfs THEN {}
    ELSE IF ~HasStep(reg, wfs[id].type, stepName) THEN {}
    ELSE IF <<id, stepName>> \in DOMAIN sx /\ sx[<<id, stepName>>].status = "completed"
         THEN {StepCompletedEvent(id, stepName, sx[<<id, stepName>>].output)}
    ELSE IF <<id, stepName>> \in DOMAIN sx /\ sx[<<id, stepName>>].status = "failed"
         THEN {StepFailedEvent(id, stepName, sx[<<id, stepName>>].error)}
    ELSE {StepTopicEvent(GetStep(reg, wfs[id].type, stepName).topic, id, stepName, wfs[id].context)}

ExecuteStepStore(wfs, sx, reg, id, stepName) ==
    IF id \notin DOMAIN wfs THEN sx
    ELSE IF ~HasStep(reg, wfs[id].type, stepName) THEN sx
    ELSE recordStepStart(sx, id, stepName, wfs[id].context)

\* executeStep, run by the handler of flowforge.execute-step
ExecuteStep(e) ==
    /\ e \in bus /\ e.topic = EXECUTE_STEP
    /\ steps' = ExecuteStepStore(workflows, steps, registry, e.wf, e.step)
    /\ Handled(e, ExecuteStepEmits(workflows, steps, registry, e.wf, e.step))
    /\ hist' = Observe(e, steps')
    /\ UNCHANGED <<registry, workflows, comps, clock, budget, inflight, refunds>>

\* A forward step handler (external): consumes the event on its step topic
\* and emits exactly one of step-completed / step-failed.
StepHandler(e, completed, output, error) ==
    /\ e \in bus /\ e.topic \in StepTopics(registry)
    /\ Handled(e, IF completed THEN {StepCompletedEvent(e.wf, e.step, output)}
                  ELSE {StepFailedEvent(e.wf, e.step, error)})
    /\ hist' = Observe(e, steps)
    /\ UNCHANGED <<registry, workflows, steps, comps, clock, budget, inflight, refunds>>

HandleStepCompletedSteps(wfs, sx, id, stepName, output) ==
    IF id \notin DOMAIN wfs THEN sx
    ELSE recordStepComplete(sx, id, stepName, output)

\* handleStepCompleted without the registration of the compensation
HandleStepCompletedCompsNone(wfs, cx, reg, id, stepName, t) == cx

HandleStepCompletedComps(wfs, cx, reg, id, stepName, t) ==
    IF id \notin DOMAIN wfs THEN cx
    ELSE IF HasStep(reg, wfs[id].type, stepName)
            /\ GetStep(reg, wfs[id].type, stepName).compensation # NoComp
         THEN registerCompensation(cx, id, stepName,
                                   GetStep(reg, wfs[id].type, stepName).compensation, t)
    ELSE cx

HandleStepCompletedWorkflows(wfs, reg, id, stepName, output) ==
    IF id \notin DOMAIN wfs THEN wfs
    ELSE IF IsLastStep(reg, wfs[id].type, stepName)
         THEN updateWorkflowStatus(updateWorkflowContext(wfs, id, output), id, "completed", NoUpdates)
    ELSE IF ~HasNextStep(reg, wfs[id].type, stepName)
         THEN updateWorkflowContext(wfs, id, output)
    ELSE advanceToStep(updateWorkflowContext(wfs, id, output), id,
                       GetNextStep(reg, wfs[id].type, stepName).name)

HandleStepCompletedEmits(wfs, reg, id, stepName) ==
    IF id \notin DOMAIN wfs THEN {}
    ELSE IF IsLastStep(reg, wfs[id].type, stepName) THEN {WorkflowCompletedEvent(id)}
    ELSE IF ~HasNextStep(reg, wfs[id].type, stepName) THEN {}
    ELSE {ExecuteStepEvent(id, GetNextStep(reg, wfs[id].type, stepName).name)}

\* handleStepCompleted, run by the handler of flowforge.step-completed;
\* t is the value of now() read by registerCompensation
HandleStepCompleted(e, t) ==
    /\ e \in bus /\ e.topic = STEP_COMPLETED
    /\ steps' = HandleStepCompletedSteps(workflows, steps, e.wf, e.step, e.out)
    /\ comps' = HandleStepCompletedComps(workflows, comps, registry, e.wf, e.step, t)
    /\ clock' = IF comps' # comps THEN t ELSE clock
    /\ workflows' = HandleStepCompletedWorkflows(workflows, registry, e.wf, e.step, e.out)
    /\ Handled(e, HandleStepCompletedEmits(workflows, registry, e.wf, e.step))
    /\ hist' = Observe(e, steps')
    /\ UNCHANGED <<registry, budget, inflight, refunds>>

\* handleStepFailed's status update without the failedStep and error updates
HandleStepFailedWorkflowsStatusOnly(wfs, id, stepName, error) ==
    updateWorkflowStatus(wfs, id, "failed", NoUpdates)

HandleStepFailedWorkflows(wfs, id, stepName, error) ==
    updateWorkflowStatus(wfs, id, "failed", [NoUpdates EXCEPT !.failedStep = stepName, !.error = error])

\* handleStepFailed, run by the handler of flowforge.step-failed
HandleStepFailed(e) ==
    /\ e \in bus /\ e.topic = STEP_FAILED
    /\ steps' = recordStepFailure(steps, e.wf, e.step, e.err)
    /\ workflows' = HandleStepFailedWorkflows(workflows, e.wf, e.step, e.err)
    /\ Handled(e, {CompensateEvent(e.wf)})
    /\ hist' = Observe(e, steps')
    /\ UNCHANGED <<registry, comps, clock, budget, inflight, refunds>>

PauseWorkflowStore(wfs, id, waitingFor) ==
    updateWorkflowStatus(wfs, id, "waiting", [NoUpdates EXCEPT !.context["_waitingFor"] = waitingFor])

\* pauseWorkflow(ctx, {workflowId, waitingFor})
PauseWorkflow(id, waitingFor) ==
    /\ budget.pause < MaxPause
    /\ id \in DOMAIN workflows
    /\ budget' = [budget EXCEPT !.pause = @ + 1]
    /\ workflows' = PauseWorkflowStore(workflows, id, waitingFor)
    /\ UNCHANGED <<registry, steps, comps, clock, bus, emitted, hist, inflight, refunds>>

ResumeWorkflowStore(wfs, id, signal, payload) ==
    IF id \notin DOMAIN wfs THEN wfs
    ELSE IF wfs[id].status # "waiting" THEN wfs
    ELSE updateWorkflowStatus(wfs, id, "running",
            [NoUpdates EXCEPT !.context =
                Merge([wfs[id].context EXCEPT !["_lastSignal"] = signal], payload)])

ResumeWorkflowEmits(wfs, id) ==
    IF id \notin DOMAIN wfs THEN {}
    ELSE IF wfs[id].status # "waiting" THEN {}
    ELSE IF wfs[id].currentStep = Null THEN {}
    ELSE {ExecuteStepEvent(id, wfs[id].currentStep)}

\* resumeWorkflow(ctx, {workflowId, signal, payload})
ResumeWorkflow(id, signal, payload) ==
    /\ id \in DOMAIN workflows /\ workflows[id].status = "waiting"
    /\ workflows' = ResumeWorkflowStore(workflows, id, signal, payload)
    /\ Emit(ResumeWorkflowEmits(workflows, id))
    /\ UNCHANGED <<registry, steps, comps, clock, budget, hist, inflight, refunds>>

-----------------------------------------------------------------------------
(* Compensator *)

finishCompensation(wfs, id) == updateWorkflowStatus(wfs, id, "compensated", NoUpdates)

\* startCompensation without the call of finishCompensation when nothing is pending
StartCompensationWorkflowsNoFinish(wfs, cx, id) ==
    IF id \notin DOMAIN wfs THEN wfs
    ELSE IF wfs[id].status # "failed" THEN wfs
    ELSE updateWorkflowStatus(wfs, id, "compensating", NoUpdates)

StartCompensationWorkflows(wfs, cx, id) ==
    IF id \notin DOMAIN wfs THEN wfs
    ELSE IF wfs[id].status # "failed" THEN wfs
    ELSE IF Pending(cx, id) = {}
         THEN finishCompensation(updateWorkflowStatus(wfs, id, "compensating", NoUpdates), id)
    ELSE updateWorkflowStatus(wfs, id, "compensating", NoUpdates)

\* pending is the listing returned by getPendingCompensations
StartCompensationEmits(wfs, cx, id, pending) ==
    IF id \notin DOMAIN wfs THEN {}
    ELSE IF wfs[id].status # "failed" THEN {}
    ELSE IF Len(pending) = 0 THEN {CompensationFinishedEvent(id)}
    ELSE {ExecuteCompensationEvent(id, pending[1], cx[<<id, pending[1]>>].compensationStep)}

\* startCompensation, run by the handler of flowforge.compensate
StartCompensation(e, pending) ==
    /\ e \in bus /\ e.topic = COMPENSATE
    /\ pending \in getPendingCompensations(comps, e.wf)
    /\ workflows' = StartCompensationWorkflows(workflows, comps, e.wf)
    /\ Handled(e, StartCompensationEmits(workflows, comps, e.wf, pending))
    /\ hist' = Observe(e, steps)
    /\ UNCHANGED <<registry, steps, comps, clock, budget, inflight, refunds>>

ExecuteCompensationEmits(wfs, sx, id, stepName, compensationStep) ==
    IF id \notin DOMAIN wfs THEN {}
    ELSE {CompensateTopicEvent(id, stepName, compensationStep, wfs[id].context,
              IF <<id, stepName>> \in DOMAIN sx THEN sx[<<id, stepName>>].output ELSE EmptyCtx)}

\* executeCompensation, run by the handler of flowforge.execute-compensation
ExecuteCompensation(e) ==
    /\ e \in bus /\ e.topic = EXECUTE_COMPENSATION
    /\ Handled(e, ExecuteCompensationEmits(workflows, steps, e.wf, e.step, e.comp))
    /\ hist' = IF e.wf \in DOMAIN workflows THEN ObserveDispatch(e, e.wf, e.step)
               ELSE Observe(e, steps)
    /\ UNCHANGED <<registry, workflows, steps, comps, clock, budget, inflight, refunds>>

\* A compensation handler (external): consumes the event on compensate.<name>
\* and emits exactly one compensation-completed for the original step.
CompensationHandler(e, success) ==
    /\ e \in bus /\ e.topic \in CompensateTopics(registry)
    /\ Handled(e, {CompensationCompletedEvent(e.wf, e.step, success,
                                              IF success THEN Undef ELSE "undo failed")})
    /\ hist' = Observe(e, steps)
    /\ UNCHANGED <<registry, workflows, steps, comps, clock, budget, inflight, refunds>>

\* handleCompensationCompleted's record update if a failed compensation were
\* left pending
HandleCompensationCompletedCompsSuccessOnly(cx, id, stepName, success, error) ==
    IF success THEN markCompensationExecuted(cx, id, stepName, "success", error) ELSE cx

HandleCompensationCompletedComps(cx, id, stepName, success, error) ==
    markCompensationExecuted(cx, id, stepName, IF success THEN "success" ELSE "failed", error)

HandleCompensationCompletedWorkflows(wfs, cx, id) ==
    IF Pending(cx, id) = {} THEN finishCompensation(wfs, id) ELSE wfs

\* handleCompensationCompleted's emit if the chain stopped after one compensation
HandleCompensationCompletedEmitsStop(cx, id, pending) == {CompensationFinishedEvent(id)}

HandleCompensationCompletedEmits(cx, id, pending) ==
    IF Len(pending) = 0 THEN {CompensationFinishedEvent(id)}
    ELSE {ExecuteCompensationEvent(id, pending[1], cx[<<id, pending[1]>>].compensationStep)}

\* handleCompensationCompleted, run by the handler of flowforge.compensation-completed
HandleCompensationCompleted(e, pending) ==
    /\ e \in bus /\ e.topic = COMPENSATION_COMPLETED
    /\ comps' = HandleCompensationCompletedComps(comps, e.wf, e.step, e.ok, e.err)
    /\ steps' = markStepCompensated(steps, e.wf, e.step)
    /\ pending \in getPendingCompensations(comps', e.wf)
    /\ workflows' = HandleCompensationCompletedWorkflows(workflows, comps', e.wf)
    /\ Handled(e, HandleCompensationCompletedEmits(comps', e.wf, pending))
    /\ hist' = Observe(e, steps')
    /\ UNCHANGED <<registry, clock, budget, inflight, refunds>>

-----------------------------------------------------------------------------
(* Event bus: at-least-once delivery *)

\* An event that was handled before is delivered once more
Redeliver(e) ==
    /\ budget.redeliver < MaxRedeliver
    /\ e \in DOMAIN emitted /\ e \notin bus /\ e.topic \notin Unsubscribed
    /\ bus' = bus \cup {e}
    /\ budget' = [budget EXCEPT !.redeliver = @ + 1]
    /\ UNCHANGED <<registry, workflows, steps, comps, clock, emitted, hist, inflight, refunds>>

-----------------------------------------------------------------------------
(* Specification: one workflow, every handler atomic, the bus delivers in   *)
(* any order and delivers up to MaxRedeliver events a second time           *)

Next ==
    \/ \E type \in MainTypes : Register(type)
    \/ \E type \in MainTypes, input \in Inputs, id \in MainIds : StartWorkflow(type, input, id, FALSE)
    \/ \E e \in bus : ExecuteStep(e)
    \/ \E e \in bus, completed \in BOOLEAN, error \in ErrorMsgs :
          \E output \in OutputsOf(e.step) : StepHandler(e, completed, output, error)
    \/ \E e \in bus, t \in {clock, clock + 1} : HandleStepCompleted(e, t)
    \/ \E e \in bus : HandleStepFailed(e)
    \/ \E e \in bus : \E pending \in getPendingCompensations(comps, e.wf) :
          StartCompensation(e, pending)
    \/ \E e \in bus : ExecuteCompensation(e)
    \/ \E e \in bus, success \in BOOLEAN : CompensationHandler(e, success)
    \/ \E e \in bus : \E pending \in getPendingCompensations(
                         HandleCompensationCompletedComps(comps, e.wf, e.step, e.ok, e.err), e.wf) :
          HandleCompensationCompleted(e, pending)
    \/ \E e \in DOMAIN emitted : Redeliver(e)

Spec == Init /\ [][Next]_vars

-----------------------------------------------------------------------------
(* Properties *)

\* position of a step in the definition of the workflow's type (0: not a step)
Pos(id, stepName) == IndexOf(registry[workflows[id].type], stepName)

AllowedEdges ==
    { <<"running", "running">>, <<"running", "waiting">>, <<"waiting", "running">>,
      <<"running", "completed">>, <<"running", "failed">>,
      <<"failed", "compensating">>, <<"compensating", "compensated">> }

\* startCompensation writes compensating and then compensated when nothing is pending
TwoWriteEdges == { <<"failed", "compensated">> }

\* C1: every change of a workflow's status made by one operation is an edge of
\* the transition graph (startCompensation with nothing pending takes the two
\* edges failed -> compensating -> compensated in one invocation).
C1_StatusEdges ==
    [][\A id \in DOMAIN workflows :
          workflows'[id].status # workflows[id].status
             => <<workflows[id].status, workflows'[id].status>> \in AllowedEdges \cup TwoWriteEdges]_vars

Compensable(id, stepName) ==
    /\ id \in DOMAIN workflows
    /\ HasStep(registry, workflows[id].type, stepName)
    /\ GetStep(registry, workflows[id].type, stepName).compensation # NoComp

\* C3: the steps with a Compensation Record are exactly the steps that
\* reached status completed and have a compensation name.
C3_CompensationIffCompleted ==
    DOMAIN comps = {key \in hist.completed : Compensable(key[1], key[2])}

StrictlyDescending(positions) ==
    \A i \in 1..(Len(positions) - 1) : positions[i] > positions[i + 1]

\* C4: every listing getPendingCompensations can return is in strictly
\* descending step position, and the compensations dispatched so far were
\* dispatched in strictly descending step position.
C4_ReverseOrder ==
    \A id \in DOMAIN workflows :
        /\ \A listing \in getPendingCompensations(comps, id) :
              StrictlyDescending([i \in 1..Len(listing) |-> Pos(id, listing[i])])
        /\ StrictlyDescending([i \in 1..Len(hist.compLog) |-> Pos(hist.compLog[i][1], hist.compLog[i][2])])

\* the step was dispatched on its topic
Dispatched(id, stepName) ==
    \E e \in DOMAIN emitted : e.topic \in StepTopics(registry) /\ e.wf = id /\ e.step = stepName

\* C5: a step is dispatched on its topic only after the step before it in
\* the definition was dispatched and reached status completed.
C5_ForwardOrder ==
    \A id \in DOMAIN workflows :
        \A i \in 2..Len(registry[workflows[id].type]) :
            Dispatched(id, registry[workflows[id].type][i].name)
               => /\ Dispatched(id, registry[workflows[id].type][i - 1].name)
                  /\ <<id, registry[workflows[id].type][i - 1].name>> \in hist.completed

\* C10: handling a step-completed event that was handled before leaves the
\* workflow instance, the step executions and the compensation records unchanged.
C10_StepCompletedIdempotent ==
    [][\A e \in bus \cap hist.handled :
          (\E t \in {clock, clock + 1} : HandleStepCompleted(e, t))
             => UNCHANGED <<workflows, steps, comps>>]_vars

-----------------------------------------------------------------------------
(* API calls: startWorkflow called up to MaxStartCalls times per id,        *)
(* pauseWorkflow and resumeWorkflow; every event is delivered once          *)

\* The handler subscribed to the topic of e runs; now() has advanced by one
\* of ticks since it was last read
Deliver(e, ticks) ==
    \/ ExecuteStep(e)
    \/ \E completed \in BOOLEAN, error \in ErrorMsgs :
          \E output \in OutputsOf(e.step) : StepHandler(e, completed, output, error)
    \/ \E d \in ticks : HandleStepCompleted(e, clock + d)
    \/ HandleStepFailed(e)
    \/ \E pending \in getPendingCompensations(comps, e.wf) : StartCompensation(e, pending)
    \/ ExecuteCompensation(e)
    \/ \E success \in BOOLEAN : CompensationHandler(e, success)
    \/ \E pending \in getPendingCompensations(
                         HandleCompensationCompletedComps(comps, e.wf, e.step, e.ok, e.err), e.wf) :
          HandleCompensationCompleted(e, pending)

NextCalls ==
    \/ \E type \in MainTypes : Register(type)
    \/ \E type \in MainTypes, input \in Inputs, id \in MainIds : StartWorkflow(type, input, id, TRUE)
    \/ \E id \in MainIds, waitingFor \in WaitingFors : PauseWorkflow(id, waitingFor)
    \/ \E id \in MainIds, signal \in Signals, payload \in Payloads : ResumeWorkflow(id, signal, payload)
    \/ \E e \in bus : Deliver(e, {1})

SpecCalls == Init /\ [][NextCalls]_vars

\* C9: a startWorkflow call for an id that has an instance leaves the store,
\* the bus and the emit counts unchanged, and the call that creates the
\* instance makes the emit count of execute-step for the first step 1: the
\* calls for one id emit it exactly once, whatever happened between them.
C9_StartIdempotent ==
    [][\A type \in MainTypes, input \in Inputs, id \in MainIds :
          StartWorkflow(type, input, id, TRUE)
             => IF id \in DOMAIN workflows
                THEN UNCHANGED <<workflows, steps, comps, bus, emitted>>
                ELSE id \in DOMAIN workflows'
                        => EmitCount(emitted', ExecuteStepEvent(id, GetFirstStep(registry, type).name)) = 1]_vars

\* C9 witness: two calls were made for a workflow that was paused and has
\* ended compensated
C9_Witness ==
    \E id \in DOMAIN workflows :
        /\ budget.starts[id] = 2
        /\ budget.pause = 1
        /\ workflows[id].status = "compensated"
        /\ EmitCount(emitted, ExecuteStepEvent(id, GetFirstStep(registry, workflows[id].type).name)) = 1

-----------------------------------------------------------------------------
(* At-least-once delivery with fair scheduling: the handler of an event on  *)
(* the bus eventually runs                                                  *)

DeliverFor(id, ticks) == \E e \in bus : e.wf = id /\ Deliver(e, ticks)

NextDup ==
    \/ \E type \in MainTypes : Register(type)
    \/ \E type \in MainTypes, input \in Inputs, id \in MainIds : StartWorkflow(type, input, id, FALSE)
    \/ \E id \in MainIds : DeliverFor(id, {1})
    \/ \E e \in DOMAIN emitted : Redeliver(e)

SpecDup == Init /\ [][NextDup]_vars /\ \A id \in MainIds : WF_vars(DeliverFor(id, {1}))

Terminated(id) == id \in DOMAIN workflows /\ workflows[id].status \in {"completed", "compensated"}

\* every compensation registered for the workflow was dispatched
AllDispatched(id) ==
    \A key \in DOMAIN comps : key[1] = id => \E i \in 1..Len(hist.compLog) : hist.compLog[i] = key

\* C7: every workflow that was started eventually has status completed or
\* compensated, and a workflow with status failed eventually has status
\* compensated with all its registered compensations dispatched.
C7_FairTermination ==
    \A id \in MainIds :
        /\ (id \in DOMAIN workflows) ~> Terminated(id)
        /\ (id \in DOMAIN workflows /\ workflows[id].status = "failed")
              ~> (id \in DOMAIN workflows /\ workflows[id].status = "compensated" /\ AllDispatched(id))

-----------------------------------------------------------------------------
(* Crashes: an invocation stops after some of its store writes and before   *)
(* its emit; the event that triggered it stays on the bus and is delivered  *)
(* again, a startWorkflow call is made again                                *)

Crashed == budget' = [budget EXCEPT !.crash = @ + 1]

\* startWorkflow stops after createWorkflow
StartWorkflowCrash(type, input, id) ==
    /\ budget.crash < MaxCrash
    /\ RegistryHas(registry, type) /\ HasFirstStep(registry, type)
    /\ id \notin DOMAIN workflows
    /\ workflows' = StartWorkflowStore(workflows, registry, type, input, id)
    /\ Crashed
    /\ UNCHANGED <<registry, steps, comps, clock, bus, emitted, hist, inflight, refunds>>

\* executeStep stops after recordStepStart
ExecuteStepCrash(e) ==
    /\ budget.crash < MaxCrash
    /\ e \in bus /\ e.topic = EXECUTE_STEP
    /\ steps' = ExecuteStepStore(workflows, steps, registry, e.wf, e.step)
    /\ Crashed
    /\ UNCHANGED <<registry, workflows, comps, clock, bus, emitted, hist, inflight, refunds>>

\* handleStepCompleted stops after the first `writes` of its writes:
\* recordStepComplete, registerCompensation, updateWorkflowContext,
\* updateWorkflowStatus / advanceToStep
HandleStepCompletedCrash(e, t, writes) ==
    /\ budget.crash < MaxCrash
    /\ e \in bus /\ e.topic = STEP_COMPLETED /\ e.wf \in DOMAIN workflows
    /\ steps' = HandleStepCompletedSteps(workflows, steps, e.wf, e.step, e.out)
    /\ comps' = IF writes >= 2 THEN HandleStepCompletedComps(workflows, comps, registry, e.wf, e.step, t)
                ELSE comps
    /\ clock' = IF comps' # comps THEN t ELSE clock
    /\ workflows' = IF writes >= 4 THEN HandleStepCompletedWorkflows(workflows, registry, e.wf, e.step, e.out)
                    ELSE IF writes = 3 THEN updateWorkflowContext(workflows, e.wf, e.out)
                    ELSE workflows
    /\ hist' = [hist EXCEPT !.completed = @ \cup CompletedNow(steps')]
    /\ Crashed
    /\ UNCHANGED <<registry, bus, emitted, inflight, refunds>>

\* handleStepFailed stops after recordStepFailure (writes = 1) or after
\* updateWorkflowStatus (writes = 2)
HandleStepFailedCrash(e, writes) ==
    /\ budget.crash < MaxCrash
    /\ e \in bus /\ e.topic = STEP_FAILED
    /\ steps' = recordStepFailure(steps, e.wf, e.step, e.err)
    /\ workflows' = IF writes >= 2 THEN HandleStepFailedWorkflows(workflows, e.wf, e.step, e.err)
                    ELSE workflows
    /\ Crashed
    /\ UNCHANGED <<registry, comps, clock, bus, emitted, hist, inflight, refunds>>

\* startCompensation stops after updateWorkflowStatus(compensating)
\* (writes = 1) or, with nothing pending, after finishCompensation's write
StartCompensationCrash(e, writes) ==
    /\ budget.crash < MaxCrash
    /\ e \in bus /\ e.topic = COMPENSATE
    /\ e.wf \in DOMAIN workflows /\ workflows[e.wf].status = "failed"
    /\ writes = 2 => Pending(comps, e.wf) = {}
    /\ workflows' = IF writes >= 2 THEN StartCompensationWorkflows(workflows, comps, e.wf)
                    ELSE updateWorkflowStatus(workflows, e.wf, "compensating", NoUpdates)
    /\ Crashed
    /\ UNCHANGED <<registry, steps, comps, clock, bus, emitted, hist, inflight, refunds>>

\* handleCompensationCompleted stops after markCompensationExecuted
\* (writes = 1), after markStepCompensated (writes = 2) or, with nothing
\* pending, after finishCompensation's write (writes = 3)
HandleCompensationCompletedCrash(e, writes) ==
    /\ budget.crash < MaxCrash
    /\ e \in bus /\ e.topic = COMPENSATION_COMPLETED
    /\ comps' = HandleCompensationCompletedComps(comps, e.wf, e.step, e.ok, e.err)
    /\ steps' = IF writes >= 2 THEN markStepCompensated(steps, e.wf, e.step) ELSE steps
    /\ writes = 3 => Pending(comps', e.wf) = {}
    /\ workflows' = IF writes >= 3 THEN HandleCompensationCompletedWorkflows(workflows, comps', e.wf)
                    ELSE workflows
    /\ hist' = [hist EXCEPT !.completed = @ \cup CompletedNow(steps')]
    /\ Crashed
    /\ UNCHANGED <<registry, clock, bus, emitted, inflight, refunds>>

NextCrash ==
    \/ \E type \in MainTypes : Register(type)
    \/ \E type \in MainTypes, input \in Inputs, id \in MainIds : StartWorkflow(type, input, id, FALSE)
    \/ \E id \in MainIds : DeliverFor(id, {1})
    \/ \E type \in MainTypes, input \in Inputs, id \in MainIds : StartWorkflowCrash(type, input, id)
    \/ \E e \in bus : ExecuteStepCrash(e)
    \/ \E e \in bus, writes \in 1..4 : HandleStepCompletedCrash(e, clock + 1, writes)
    \/ \E e \in bus, writes \in 1..2 : HandleStepFailedCrash(e, writes)
    \/ \E e \in bus, writes \in 1..2 : StartCompensationCrash(e, writes)
    \/ \E e \in bus, writes \in 1..3 : HandleCompensationCompletedCrash(e, writes)

SpecCrash ==
    /\ Init /\ [][NextCrash]_vars
    /\ \A id \in MainIds : WF_vars(DeliverFor(id, {1}))
    /\ \A type \in MainTypes, input \in Inputs, id \in MainIds :
          WF_vars(StartWorkflow(type, input, id, FALSE))

\* C6: with invocations that stop before their emit and are triggered
\* again, every workflow that was started eventually has status completed
\* or compensated.
C6_CrashRecovery ==
    \A id \in MainIds : (id \in DOMAIN workflows) ~> Terminated(id)

\* C6 case: an invocation has stopped before its emit, nothing is left to
\* deliver, and the workflow is neither completed nor compensated
C6_Stuck ==
    \E id \in DOMAIN workflows :
        budget.crash = 1 /\ bus = {} /\ workflows[id].status \in {"running", "compensating"}

-----------------------------------------------------------------------------
(* Interleaved persistence calls: state.get and state.set of one call are   *)
(* separate steps, and other calls on the same instance run between them    *)

Call(op, status, updates, stepName, contextUpdates) ==
    [op |-> op, status |-> status, updates |-> updates, step |-> stepName, ctx |-> contextUpdates]

\* The calls the engine and the compensator make on a workflow instance
Calls ==
    {Call("updateWorkflowStatus", "completed", NoUpdates, Undef, EmptyCtx),
     Call("updateWorkflowStatus", "compensating", NoUpdates, Undef, EmptyCtx),
     Call("updateWorkflowStatus", "compensated", NoUpdates, Undef, EmptyCtx),
     Call("updateWorkflowStatus", "failed",
          [NoUpdates EXCEPT !.failedStep = "Credit", !.error = "boom"], Undef, EmptyCtx),
     Call("updateWorkflowStatus", "waiting",
          [NoUpdates EXCEPT !.context["_waitingFor"] = 1], Undef, EmptyCtx),
     Call("updateWorkflowStatus", "running",
          [NoUpdates EXCEPT !.context["_lastSignal"] = 1], Undef, EmptyCtx),
     Call("updateWorkflowContext", Undef, NoUpdates, Undef, Ctx(1)),
     Call("advanceToStep", Undef, NoUpdates, "Credit", EmptyCtx),
     Call("advanceToStep", Undef, NoUpdates, "Receipt", EmptyCtx)}

\* the group as the call saw it at its state.get
Snapshot(r) == IF r.snap = <<>> THEN <<>> ELSE Put(<<>>, r.id, r.snap[1])

ApplyCall(call, wfs, id) ==
    IF call.op = "updateWorkflowStatus" THEN updateWorkflowStatus(wfs, id, call.status, call.updates)
    ELSE IF call.op = "updateWorkflowContext" THEN updateWorkflowContext(wfs, id, call.ctx)
    ELSE advanceToStep(wfs, id, call.step)

\* whether the call reaches its state.set
CallWrites(call, wfs, id) ==
    /\ id \in DOMAIN wfs
    /\ call.op = "updateWorkflowContext" => ~isTerminal(wfs[id].status)
    /\ call.op = "advanceToStep" => canAdvance(wfs[id].status)

\* state.get of a persistence call
ReadInstance(call, id) ==
    /\ budget.ops < MaxOps
    /\ budget' = [budget EXCEPT !.ops = @ + 1]
    /\ inflight' = inflight \cup
          {[call |-> call, id |-> id,
            snap |-> IF id \in DOMAIN workflows THEN <<workflows[id]>> ELSE <<>>]}
    /\ UNCHANGED <<registry, workflows, steps, comps, clock, bus, emitted, hist, refunds>>

\* the rest of the call: state.set of the record computed from what was read
WriteInstance(r) ==
    /\ r \in inflight
    /\ inflight' = inflight \ {r}
    /\ workflows' = IF CallWrites(r.call, Snapshot(r), r.id)
                    THEN Put(workflows, r.id, ApplyCall(r.call, Snapshot(r), r.id)[r.id])
                    ELSE workflows
    /\ UNCHANGED <<registry, steps, comps, clock, bus, emitted, budget, hist, refunds>>

NextRMW ==
    \/ \E type \in MainTypes : Register(type)
    \/ \E type \in MainTypes, input \in Inputs, id \in MainIds : StartWorkflow(type, input, id, FALSE)
    \/ \E call \in Calls, id \in MainIds : ReadInstance(call, id)
    \/ \E r \in inflight : WriteInstance(r)

SpecRMW == Init /\ [][NextRMW]_vars

\* C8: a workflow with status completed or compensated has currentStep = null.
C8_TerminalClearsStep ==
    \A id \in DOMAIN workflows :
        workflows[id].status \in {"completed", "compensated"} => workflows[id].currentStep = Null

\* C8 witness: the instance is completed, written between the read and the
\* write of an advanceToStep that saw it running
C8_Witness ==
    \E id \in DOMAIN workflows :
        /\ workflows[id].status = "completed"
        /\ workflows[id].currentStep = Null
        /\ \E r \in inflight :
              r.id = id /\ r.call.op = "advanceToStep" /\ r.snap # <<>> /\ r.snap[1].status = "running"

-----------------------------------------------------------------------------
(* Compensation records *)

\* a compensation-completed event of the same compensation was handled before
HandledBefore(e) ==
    \E h \in hist.handled :
        h.topic = COMPENSATION_COMPLETED /\ h.wf = e.wf /\ h.step = e.step

\* C11: handling a compensation-completed event of a compensation whose
\* compensation-completed event was handled before (the same event again, or
\* one with the other success value) finds the record executed and leaves it
\* as the first handling wrote it.
C11_MarkExecutedOnce ==
    [][\A e \in bus :
          (/\ e.topic = COMPENSATION_COMPLETED
           /\ HandledBefore(e)
           /\ \E pending \in getPendingCompensations(comps', e.wf) :
                 HandleCompensationCompleted(e, pending))
             => /\ <<e.wf, e.step>> \in DOMAIN comps
                /\ comps[<<e.wf, e.step>>].executed
                /\ comps' = comps]_vars

\* C11 witness: a record executed with result success, after the handling of
\* a compensation-completed event of the same compensation with success = false
C11_Witness ==
    \E h1 \in hist.handled, h2 \in hist.handled :
        /\ h1.topic = COMPENSATION_COMPLETED /\ h2.topic = COMPENSATION_COMPLETED
        /\ h1.wf = h2.wf /\ h1.step = h2.step
        /\ h1.ok /\ ~h2.ok
        /\ <<h1.wf, h1.step>> \in DOMAIN comps
        /\ comps[<<h1.wf, h1.step>>].executed
        /\ comps[<<h1.wf, h1.step>>].result = "success"

\* the events emitted on the compensation topic of stepName of workflow id
CompensationEmits(id, stepName) ==
    {e \in DOMAIN emitted :
        e.topic \in CompensateTopics(registry) /\ e.wf = id /\ e.step = stepName}

\* C12: the compensator emits on compensate.<compensationStep> at most once
\* for each compensation record, whatever events are delivered again.
C12_CompensationEmittedOnce ==
    \A key \in DOMAIN comps :
        /\ Cardinality(CompensationEmits(key[1], key[2])) <= 1
        /\ \A e \in CompensationEmits(key[1], key[2]) : emitted[e] <= 1

\* the pending records of the workflow that getPendingCompensations may list first
FirstPending(cx, id) ==
    {key \in Pending(cx, id) :
        \A k2 \in Pending(cx, id) : cx[key].registeredAt >= cx[k2].registeredAt}

\* C13: the handling of a compensation-completed event with success = false
\* for a record that is not executed marks the record executed with result
\* failed; if other records are pending it emits execute-compensation for the
\* next one, and if none is pending it sets the workflow to compensated.
C13_FailedCompensationContinues ==
    [][\A e \in bus :
          (/\ e.topic = COMPENSATION_COMPLETED /\ ~e.ok
           /\ e.wf \in DOMAIN workflows
           /\ <<e.wf, e.step>> \in DOMAIN comps
           /\ ~comps[<<e.wf, e.step>>].executed
           /\ \E pending \in getPendingCompensations(comps', e.wf) :
                 HandleCompensationCompleted(e, pending))
             => /\ comps'[<<e.wf, e.step>>].executed
                /\ comps'[<<e.wf, e.step>>].result = "failed"
                /\ comps'[<<e.wf, e.step>>].error = e.err
                /\ IF Pending(comps', e.wf) = {}
                   THEN workflows'[e.wf].status = "compensated"
                   ELSE \E key \in FirstPending(comps', e.wf) :
                           /\ ExecuteCompensationEvent(key[1], key[2], comps[key].compensationStep) \in bus'
                           /\ workflows'[e.wf].status = workflows[e.wf].status]_vars

\* C13 witness: the workflow is compensated, one record has result failed and
\* a record registered before it was executed with result success
C13_Witness ==
    \E k1 \in DOMAIN comps, k2 \in DOMAIN comps :
        /\ k1[1] = k2[1] /\ k1 # k2
        /\ workflows[k1[1]].status = "compensated"
        /\ comps[k1].executed /\ comps[k1].result = "failed"
        /\ comps[k2].executed /\ comps[k2].result = "success"
        /\ comps[k2].registeredAt < comps[k1].registeredAt

-----------------------------------------------------------------------------
(* Step failure *)

\* C14: handleStepFailed for a running workflow whose step is running sets the
\* step execution to failed with the error, sets the workflow to failed with
\* failedStep = stepName, error = the error message and currentStep = null,
\* and emits one compensate event for the workflow and nothing else.
C14_StepFailedEffects ==
    [][\A e \in bus :
          (/\ e.topic = STEP_FAILED
           /\ e.wf \in DOMAIN workflows /\ workflows[e.wf].status = "running"
           /\ <<e.wf, e.step>> \in DOMAIN steps /\ steps[<<e.wf, e.step>>].status = "running"
           /\ HandleStepFailed(e))
             => /\ steps'[<<e.wf, e.step>>].status = "failed"
                /\ steps'[<<e.wf, e.step>>].error = e.err
                /\ workflows'[e.wf].status = "failed"
                /\ workflows'[e.wf].failedStep = e.step
                /\ workflows'[e.wf].error = e.err
                /\ workflows'[e.wf].currentStep = Null
                /\ bus' = (bus \ {e}) \cup {CompensateEvent(e.wf)}
                /\ EmitCount(emitted', CompensateEvent(e.wf)) =
                      IF EmitCount(emitted, CompensateEvent(e.wf)) < EmitCap
                      THEN EmitCount(emitted, CompensateEvent(e.wf)) + 1 ELSE EmitCap
                /\ \A e2 \in DOMAIN emitted' :
                      e2 # CompensateEvent(e.wf) => EmitCount(emitted', e2) = EmitCount(emitted, e2)]_vars

\* C14 witness: the second step failed while running: the workflow is failed
\* with that failedStep and the one compensate event is on the bus
C14_Witness ==
    \E key \in DOMAIN steps :
        /\ steps[key].status = "failed" /\ steps[key].error \in ErrorMsgs
        /\ Pos(key[1], key[2]) = 2
        /\ workflows[key[1]].status = "failed"
        /\ workflows[key[1]].failedStep = key[2]
        /\ workflows[key[1]].error = steps[key].error
        /\ workflows[key[1]].currentStep = Null
        /\ CompensateEvent(key[1]) \in bus
        /\ EmitCount(emitted, CompensateEvent(key[1])) = 1

-----------------------------------------------------------------------------
(* executeStep *)

\* the events that the handling of e emitted on a step topic
StepTopicEmits(e) ==
    {e2 \in DOMAIN emitted' :
        /\ e2.topic \in StepTopics(registry) /\ e2.wf = e.wf /\ e2.step = e.step
        /\ EmitCount(emitted', e2) > EmitCount(emitted, e2)}

\* C15: executeStep leaves an existing step execution unchanged; for a
\* completed record it emits step-completed with the stored output and for a
\* failed record step-failed with the stored error, in both cases nothing on
\* the step's topic; it emits on the step's topic only if the record was
\* newly created or is running.
C15_ExecuteStepReplay ==
    [][\A e \in bus :
          (e.topic = EXECUTE_STEP /\ e.wf \in DOMAIN workflows /\ ExecuteStep(e))
             => LET key == <<e.wf, e.step>> IN
                /\ key \in DOMAIN steps => steps'[key] = steps[key]
                /\ (key \in DOMAIN steps /\ steps[key].status = "completed")
                      => /\ StepCompletedEvent(e.wf, e.step, steps[key].output) \in bus'
                         /\ StepTopicEmits(e) = {}
                /\ (key \in DOMAIN steps /\ steps[key].status = "failed")
                      => /\ StepFailedEvent(e.wf, e.step, steps[key].error) \in bus'
                         /\ StepTopicEmits(e) = {}
                /\ StepTopicEmits(e) # {}
                      => key \notin DOMAIN steps \/ steps[key].status = "running"]_vars

-----------------------------------------------------------------------------
(* Registration order *)

\* C16: the compensation records of a workflow name steps of its definition
\* that have a compensation, and with every record the records of all earlier
\* steps that have a compensation exist and were not registered later.
C16_RegisteredPrefix ==
    \A key \in DOMAIN comps :
        LET id == key[1]
            def == registry[workflows[id].type]
        IN  /\ HasStep(registry, workflows[id].type, key[2])
            /\ def[Pos(id, key[2])].compensation = comps[key].compensationStep
            /\ comps[key].compensationStep # NoComp
            /\ \A i \in 1..(Pos(id, key[2]) - 1) :
                  def[i].compensation # NoComp
                     => /\ <<id, def[i].name>> \in DOMAIN comps
                        /\ comps[<<id, def[i].name>>].registeredAt <= comps[key].registeredAt

\* C16 witness: the records of Debit and Credit exist, Credit's registered
\* later, and handleStepCompleted ran twice for Debit (it emitted execute-step
\* for Credit twice)
C16_Witness ==
    /\ <<"wf1", "Debit">> \in DOMAIN comps /\ <<"wf1", "Credit">> \in DOMAIN comps
    /\ comps[<<"wf1", "Debit">>].registeredAt < comps[<<"wf1", "Credit">>].registeredAt
    /\ budget.redeliver = 1
    /\ EmitCount(emitted, ExecuteStepEvent("wf1", "Credit")) = 2

-----------------------------------------------------------------------------
(* Specification of the order workflow: OrderWorkflow is registered and      *)
(* started once, every event is delivered exactly once and every event of    *)
(* the workflow is eventually delivered. Each forward handler of the order   *)
(* workflow awaits its external service (simulateLatency, 100 ms) before it   *)
(* reports step-completed, so two registrations never read the same now().   *)

OrderTypes == {"OrderWorkflow"}

\* the advance of now() between two registrations of the order workflow
OrderTicks == {1}

NextOrder ==
    \/ \E type \in OrderTypes : Register(type)
    \/ \E type \in OrderTypes, input \in Inputs, id \in MainIds : StartWorkflow(type, input, id, FALSE)
    \/ \E id \in MainIds : DeliverFor(id, OrderTicks)

SpecOrder == Init /\ [][NextOrder]_vars /\ \A id \in MainIds : WF_vars(DeliverFor(id, OrderTicks))

\* a handler of the workflow reported step-failed for stepName
StepFailedReported(id, stepName) ==
    \E e \in DOMAIN emitted : e.topic = STEP_FAILED /\ e.wf = id /\ e.step = stepName

AnyStepFailedReported(id) == \E stepName \in StepNames : StepFailedReported(id, stepName)

StepStatusIs(id, stepName, status) ==
    <<id, stepName>> \in DOMAIN steps /\ steps[<<id, stepName>>].status = status

CompensationsOf(id) == {key[2] : key \in {k \in DOMAIN comps : k[1] = id}}

OrderStepNames == {OrderWorkflowDefinition[i].name : i \in 1..Len(OrderWorkflowDefinition)}

\* the state in which the happy path of the order workflow ends
OrderCompleted(id) ==
    /\ id \in DOMAIN workflows /\ workflows[id].status = "completed"
    /\ {key[2] : key \in {k \in DOMAIN steps : k[1] = id}} = OrderStepNames
    /\ Cardinality(OrderStepNames) = 6
    /\ \A stepName \in OrderStepNames : StepStatusIs(id, stepName, "completed")
    /\ CompensationsOf(id) = {"ChargePayment", "ReserveInventory", "CreateShipment"}
    /\ \A stepName \in CompensationsOf(id) : ~comps[<<id, stepName>>].executed

\* C17: a started order workflow none of whose handlers reports step-failed
\* reaches status completed, and whenever it has status completed its six
\* step executions are all completed and it has exactly the three
\* compensation records of ChargePayment, ReserveInventory and CreateShipment,
\* none of them executed.
C17_OrderHappyPath ==
    /\ [](\A id \in MainIds :
             (id \in DOMAIN workflows /\ workflows[id].status = "completed") => OrderCompleted(id))
    /\ \A id \in MainIds :
          (id \in DOMAIN workflows) ~> (AnyStepFailedReported(id) \/ OrderCompleted(id))

\* C17 witness: the order workflow completed, nothing left to deliver
C17_Witness == OrderCompleted("wf1") /\ ~AnyStepFailedReported("wf1") /\ bus = {}

StepExecutionsOf(id) == {key[2] : key \in {k \in DOMAIN steps : k[1] = id}}

\* nothing was emitted on a compensate.<name> topic for the workflow
NoCompensationEmitted(id) ==
    \A e \in DOMAIN emitted : e.wf = id => e.topic \notin CompensateTopics(registry)

\* the store of an order workflow whose ChargePayment step failed
PaymentFailedStore(id) ==
    /\ CompensationsOf(id) = {}
    /\ NoCompensationEmitted(id)
    /\ StepExecutionsOf(id) = {"ValidateOrder", "ChargePayment"}
    /\ StepStatusIs(id, "ValidateOrder", "completed")

DispatchOrder(id) ==
    LET log == SelectSeq(hist.compLog, LAMBDA entry : entry[1] = id)
    IN  [i \in 1..Len(log) |-> log[i][2]]

\* the compensation names emitted on compensate.<name> for the workflow
CompensationNamesEmitted(id) ==
    {e.comp : e \in {e2 \in DOMAIN emitted : e2.wf = id /\ e2.topic \in CompensateTopics(registry)}}

IsPrefix(s, t) == Len(s) <= Len(t) /\ \A i \in 1..Len(s) : s[i] = t[i]

\* the state in which the run with the failed shipment ends
ShipmentFailureCompensated(id) ==
    /\ id \in DOMAIN workflows /\ workflows[id].status = "compensated"
    /\ DispatchOrder(id) = <<"ReserveInventory", "ChargePayment">>
    /\ CompensationNamesEmitted(id) = {"ReleaseInventory", "RefundPayment"}
    /\ StepStatusIs(id, "ReserveInventory", "compensated")
    /\ StepStatusIs(id, "ChargePayment", "compensated")

-----------------------------------------------------------------------------
(* Specification of the signal endpoint: POST /workflows/:id/signal calls    *)
(* resumeWorkflow for any id, known or not, at any moment; pauseWorkflow is  *)
(* called at any moment; every event is delivered once.                      *)

\* payloads of a signal: none, a business key, and the key _lastSignal itself
SignalPayloads == {EmptyCtx, Ctx(2), [EmptyCtx EXCEPT !["_lastSignal"] = 2]}

\* the handler of SignalWorkflow: resumeWorkflow(ctx, {workflowId, signal, payload})
SignalWorkflow(id, signal, payload) ==
    /\ budget.signals < MaxSignals
    /\ budget' = [budget EXCEPT !.signals = @ + 1]
    /\ workflows' = ResumeWorkflowStore(workflows, id, signal, payload)
    /\ Emit(ResumeWorkflowEmits(workflows, id))
    /\ UNCHANGED <<registry, steps, comps, clock, hist, inflight, refunds>>

NextSignal ==
    \/ \E type \in MainTypes : Register(type)
    \/ \E type \in MainTypes, input \in Inputs, id \in MainIds : StartWorkflow(type, input, id, FALSE)
    \/ \E id \in MainIds, waitingFor \in WaitingFors : PauseWorkflow(id, waitingFor)
    \/ \E id \in WorkflowIds, signal \in Signals, payload \in SignalPayloads :
          SignalWorkflow(id, signal, payload)
    \/ \E e \in bus : Deliver(e, {1})

SpecSignal == Init /\ [][NextSignal]_vars

\* the context after a resume: the payload's keys, else the signal as
\* _lastSignal, else the stored value
ResumedContext(context, signal, payload) ==
    [key \in Keys |-> IF payload[key] # Absent THEN payload[key]
                      ELSE IF key = "_lastSignal" THEN signal
                      ELSE context[key]]

\* C21: resumeWorkflow on a waiting workflow sets the status to running,
\* merges the signal as _lastSignal and the payload into the context, keeps
\* currentStep and emits one execute-step for currentStep and nothing else;
\* on a workflow in another status or on an unknown id it changes neither
\* the store nor the bus nor the emit counts.
C21_ResumeOnlyFromWaiting ==
    [][\A id \in WorkflowIds, signal \in Signals, payload \in SignalPayloads :
          SignalWorkflow(id, signal, payload)
             => IF id \in DOMAIN workflows /\ workflows[id].status = "waiting"
                THEN /\ workflows'[id].status = "running"
                     /\ workflows'[id].context = ResumedContext(workflows[id].context, signal, payload)
                     /\ workflows'[id].currentStep = workflows[id].currentStep
                     /\ steps' = steps /\ comps' = comps
                     /\ bus' = bus \cup {ExecuteStepEvent(id, workflows[id].currentStep)}
                     /\ emitted' = Counted(emitted, {ExecuteStepEvent(id, workflows[id].currentStep)})
                ELSE UNCHANGED <<workflows, steps, comps, bus, emitted>>]_vars

-----------------------------------------------------------------------------
(* Specification with persistence misses: an event reaches a handler whose   *)
(* workflow instance or step execution is not in the store (an event of a    *)
(* lost or foreign workflow, or one published before the record was written) *)

\* events that a publisher other than the engine can put on the bus
StrayEvents ==
    UNION {{ExecuteStepEvent(id, stepName),
            StepCompletedEvent(id, stepName, Ctx(1)),
            StepFailedEvent(id, stepName, "boom"),
            CompensateEvent(id),
            ExecuteCompensationEvent(id, stepName, "UndoDebit")} :
           id \in WorkflowIds, stepName \in {"Debit"}}

Stray(e) ==
    /\ budget.stray < MaxStray
    /\ e \in StrayEvents /\ e \notin bus
    /\ bus' = bus \cup {e}
    /\ budget' = [budget EXCEPT !.stray = @ + 1]
    /\ UNCHANGED <<registry, workflows, steps, comps, clock, emitted, hist, inflight, refunds>>

NextStray ==
    \/ \E type \in MainTypes : Register(type)
    \/ \E type \in MainTypes, input \in Inputs, id \in MainIds : StartWorkflow(type, input, id, FALSE)
    \/ \E e \in StrayEvents : Stray(e)
    \/ \E e \in bus : Deliver(e, {1})

SpecStray == Init /\ [][NextStray]_vars

\* the handling of e is a persistence miss: the workflow instance is missing,
\* or the step execution is missing for step-completed and step-failed
PersistenceMiss(e) ==
    \/ /\ e.topic \in {EXECUTE_STEP, STEP_COMPLETED, STEP_FAILED, COMPENSATE, EXECUTE_COMPENSATION}
       /\ e.wf \notin DOMAIN workflows
    \/ /\ e.topic \in {STEP_COMPLETED, STEP_FAILED}
       /\ <<e.wf, e.step>> \notin DOMAIN steps

\* C22: a handler of the engine or the compensator that meets a persistence
\* miss consumes the event, writes nothing to the store and emits nothing.
C22_MissReturnsSilently ==
    [][\A e \in bus :
          (PersistenceMiss(e) /\ Deliver(e, {1}))
             => /\ UNCHANGED <<workflows, steps, comps, emitted>>
                /\ bus' = bus \ {e}]_vars

-----------------------------------------------------------------------------
(* Specification of the start endpoint: startWorkflow is called with types   *)
(* that are registered, registered without steps, or not registered; a call  *)
(* that throws is recorded in hist.errors                                    *)

StartTypes == {"Transfer", "Empty"}
CallTypes == {"Transfer", "Empty", "Unknown"}

\* the error startWorkflow throws for the type, or Null
StartWorkflowError(reg, type) ==
    IF ~RegistryHas(reg, type) THEN "UnknownType"
    ELSE IF ~HasFirstStep(reg, type) THEN "EmptyWorkflow"
    ELSE Null

\* startWorkflow's store update if the instance were created before the
\* first step is looked up
StartWorkflowCallStoreEager(wfs, reg, type, input, id) ==
    IF ~RegistryHas(reg, type) THEN wfs
    ELSE IF id \in DOMAIN wfs THEN wfs
    ELSE createWorkflow(wfs, id, type,
                        IF HasFirstStep(reg, type) THEN GetFirstStep(reg, type).name ELSE Null, input)

StartWorkflowCallStore(wfs, reg, type, input, id) ==
    IF StartWorkflowError(reg, type) # Null THEN wfs
    ELSE StartWorkflowStore(wfs, reg, type, input, id)

StartWorkflowCallEmits(wfs, reg, type, id) ==
    IF StartWorkflowError(reg, type) # Null THEN {}
    ELSE StartWorkflowEmits(wfs, reg, type, id)

\* a call of startWorkflow(ctx, {type, input, workflowId}), throwing or not
StartWorkflowCall(type, input, id) ==
    /\ budget.starts[id] < MaxStartCalls
    /\ budget' = [budget EXCEPT !.starts[id] = @ + 1]
    /\ workflows' = StartWorkflowCallStore(workflows, registry, type, input, id)
    /\ Emit(StartWorkflowCallEmits(workflows, registry, type, id))
    /\ hist' = IF StartWorkflowError(registry, type) # Null
               THEN [hist EXCEPT !.errors = @ \cup {<<type, StartWorkflowError(registry, type)>>}]
               ELSE hist
    /\ UNCHANGED <<registry, steps, comps, clock, inflight, refunds>>

NextStart ==
    \/ \E type \in StartTypes : Register(type)
    \/ \E type \in CallTypes, input \in Inputs, id \in MainIds : StartWorkflowCall(type, input, id)
    \/ \E e \in bus : Deliver(e, {1})

SpecStart == Init /\ [][NextStart]_vars

\* C23: a startWorkflow call with a type that is not registered, or that is
\* registered without steps, throws, creates no workflow instance and emits
\* no event.
C23_StartRejectsBadType ==
    [][\A type \in CallTypes, input \in Inputs, id \in MainIds :
          (/\ ~RegistryHas(registry, type) \/ Len(registry[type]) = 0
           /\ StartWorkflowCall(type, input, id))
             => /\ \E err \in {"UnknownType", "EmptyWorkflow"} : <<type, err>> \in hist'.errors
                /\ UNCHANGED <<workflows, steps, comps, bus, emitted>>]_vars

\* C23 witness: both errors were thrown, the second one for a registered
\* type without steps, and no instance exists
C23_Witness ==
    /\ <<"Unknown", "UnknownType">> \in hist.errors
    /\ <<"Empty", "EmptyWorkflow">> \in hist.errors
    /\ "Empty" \in DOMAIN registry
    /\ workflows = <<>> /\ bus = {}
    /\ budget.starts["wf1"] = 2

-----------------------------------------------------------------------------
(* Specification of concurrent step-record calls: recordStepComplete and     *)
(* recordStepFailure each await state.get and later state.set, and other     *)
(* calls run between the two                                                 *)

StepCall(op, output, error) == [op |-> op, out |-> output, err |-> error]

\* the calls handleStepCompleted and handleStepFailed make on a step execution
StepCalls ==
    {StepCall("recordStepComplete", Ctx(1), Undef),
     StepCall("recordStepFailure", EmptyCtx, "boom")}

ApplyStepCall(call, sx, id, stepName) ==
    IF call.op = "recordStepComplete" THEN recordStepComplete(sx, id, stepName, call.out)
    ELSE recordStepFailure(sx, id, stepName, call.err)

\* the step group as the call saw it at its state.get
StepSnapshot(r) == IF r.snap = <<>> THEN <<>> ELSE Put(<<>>, <<r.id, r.step>>, r.snap[1])

\* whether the call reaches its state.set
StepCallWrites(r) == r.snap # <<>> /\ ~isStepTerminal(r.snap[1].status)

\* state.get of recordStepComplete / recordStepFailure
ReadStepExecution(call, id, stepName) ==
    /\ budget.ops < MaxOps
    /\ budget' = [budget EXCEPT !.ops = @ + 1]
    /\ inflight' = inflight \cup
          {[call |-> call, id |-> id, step |-> stepName,
            snap |-> IF <<id, stepName>> \in DOMAIN steps THEN <<steps[<<id, stepName>>]>> ELSE <<>>]}
    /\ UNCHANGED <<registry, workflows, steps, comps, clock, bus, emitted, hist, refunds>>

\* the rest of the call: state.set of the record computed from what was read
WriteStepExecution(r) ==
    /\ r \in inflight
    /\ inflight' = inflight \ {r}
    /\ steps' = IF StepCallWrites(r)
                THEN Put(steps, <<r.id, r.step>>,
                         ApplyStepCall(r.call, StepSnapshot(r), r.id, r.step)[<<r.id, r.step>>])
                ELSE steps
    /\ UNCHANGED <<registry, workflows, comps, clock, bus, emitted, budget, hist, refunds>>

NextStepRMW ==
    \/ \E type \in MainTypes : Register(type)
    \/ \E type \in MainTypes, input \in Inputs, id \in MainIds : StartWorkflow(type, input, id, FALSE)
    \/ \E e \in bus : ExecuteStep(e)
    \/ \E call \in StepCalls, id \in MainIds, stepName \in {"Debit"} : ReadStepExecution(call, id, stepName)
    \/ \E r \in inflight : WriteStepExecution(r)

SpecStepRMW == Init /\ [][NextStepRMW]_vars

\* C24: when recordStepComplete and recordStepFailure run concurrently on one
\* step execution, a record that has a terminal status is never replaced by
\* the other operation.
C24_FirstTerminalWriteWins ==
    [][\A key \in DOMAIN steps :
          isStepTerminal(steps[key].status) => steps'[key] = steps[key]]_vars

-----------------------------------------------------------------------------
(* Specification of the step-record calls as functions of the stored record: *)
(* the store starts with no step execution or with one in any status, and    *)
(* recordStepComplete and recordStepFailure are called on it                 *)

StepStatuses == {"pending", "running", "completed", "failed", "skipped", "compensated"}

\* a stored step execution of the given status
StepRecord(status, output) ==
    [status |-> status, input |-> EmptyCtx,
     output |-> IF status \in {"completed", "compensated"} THEN output ELSE EmptyCtx,
     error |-> IF status = "failed" THEN "first" ELSE Undef]

StepStores ==
    {<<>>} \cup {Put(<<>>, <<"wf1", "Debit">>, StepRecord(status, output)) :
                    status \in StepStatuses, output \in {Ctx(1), Ctx(2)}}

InitRecord ==
    /\ registry = <<>> /\ workflows = <<>> /\ comps = <<>>
    /\ steps \in StepStores
    /\ clock = 0 /\ bus = {} /\ emitted = <<>>
    /\ budget = [redeliver |-> 0, pause |-> 0, crash |-> 0, ops |-> 0, signals |-> 0, stray |-> 0,
                 starts |-> [id \in WorkflowIds |-> 0]]
    /\ hist = [completed |-> {}, handled |-> {}, compLog |-> <<>>, errors |-> {}]
    /\ inflight = {}
    /\ refunds = <<>>

\* the calls made on the stored record
RecordCalls ==
    {StepCall("recordStepComplete", output, Undef) : output \in {Ctx(1), Ctx(2)}}
       \cup {StepCall("recordStepFailure", EmptyCtx, error) : error \in {"boom", "late"}}

RecordSteps == {"Debit", "Credit"}

\* the value the call returns: none, the existing record, or the updated one
StepCallResult(call, sx, id, stepName) ==
    IF <<id, stepName>> \notin DOMAIN sx THEN <<>>
    ELSE IF isStepTerminal(sx[<<id, stepName>>].status) THEN <<sx[<<id, stepName>>]>>
    ELSE <<ApplyStepCall(call, sx, id, stepName)[<<id, stepName>>]>>

\* one whole call of recordStepComplete / recordStepFailure; inflight holds
\* the last call with the value it returned
RecordStepCall(call, id, stepName) ==
    /\ budget.ops < MaxOps
    /\ budget' = [budget EXCEPT !.ops = @ + 1]
    /\ steps' = ApplyStepCall(call, steps, id, stepName)
    /\ inflight' = {[call |-> call, id |-> id, step |-> stepName, n |-> budget.ops,
                     ret |-> StepCallResult(call, steps, id, stepName)]}
    /\ UNCHANGED <<registry, workflows, comps, clock, bus, emitted, hist, refunds>>

NextRecord ==
    \E call \in RecordCalls, id \in MainIds, stepName \in RecordSteps : RecordStepCall(call, id, stepName)

SpecRecord == InitRecord /\ [][NextRecord]_vars

\* C25: recordStepComplete and recordStepFailure called on a step execution
\* whose status is completed, failed, skipped or compensated return the stored
\* record and leave it unchanged; called when no record exists they return
\* none and create nothing.
C25_TerminalRecordUntouched ==
    [][\A call \in RecordCalls, id \in MainIds, stepName \in RecordSteps :
          RecordStepCall(call, id, stepName)
             => LET key == <<id, stepName>> IN
                /\ (key \in DOMAIN steps
                      /\ steps[key].status \in {"completed", "failed", "skipped", "compensated"})
                      => /\ steps' = steps
                         /\ \A r \in inflight' : r.ret = <<steps[key]>>
                /\ key \notin DOMAIN steps
                      => /\ steps' = steps
                         /\ \A r \in inflight' : r.ret = <<>>]_vars

\* C25 witness: recordStepComplete returned the stored failed record, which
\* still has its error and no output
C25_Witness ==
    /\ \E r \in inflight :
          /\ r.call.op = "recordStepComplete"
          /\ r.ret # <<>> /\ r.ret[1].status = "failed" /\ r.ret[1].error = "first"
          /\ steps[<<r.id, r.step>>] = r.ret[1]
          /\ r.n = 2
    /\ clock = 0

-----------------------------------------------------------------------------
(* Specification of the guarded instance calls as functions of the stored    *)
(* instance: the store starts with no instance or with one in any status,    *)
(* and advanceToStep and updateWorkflowContext are called on it              *)

WorkflowStatuses ==
    {"running", "waiting", "failed", "completed", "compensating", "compensated"}

\* a stored workflow instance of the given status
InstanceRecord(status, context) ==
    [type |-> "Transfer", status |-> status,
     currentStep |-> IF isTerminal(status) THEN Null ELSE "Debit",
     context |-> context,
     failedStep |-> IF status \in {"failed", "compensating", "compensated"} THEN "Debit" ELSE Undef,
     error |-> IF status \in {"failed", "compensating", "compensated"} THEN "boom" ELSE Undef]

InstanceStores ==
    {<<>>} \cup {Put(<<>>, "wf1", InstanceRecord(status, context)) :
                    status \in WorkflowStatuses, context \in {EmptyCtx, Ctx(1)}}

InitInstance ==
    /\ registry = <<>> /\ steps = <<>> /\ comps = <<>>
    /\ workflows \in InstanceStores
    /\ clock = 0 /\ bus = {} /\ emitted = <<>>
    /\ budget = [redeliver |-> 0, pause |-> 0, crash |-> 0, ops |-> 0, signals |-> 0, stray |-> 0,
                 starts |-> [id \in WorkflowIds |-> 0]]
    /\ hist = [completed |-> {}, handled |-> {}, compLog |-> <<>>, errors |-> {}]
    /\ inflight = {}
    /\ refunds = <<>>

\* the guarded calls made on the stored instance
InstanceCalls ==
    {Call("advanceToStep", Undef, NoUpdates, stepName, EmptyCtx) : stepName \in {"Credit", "Receipt"}}
       \cup {Call("updateWorkflowContext", Undef, NoUpdates, Undef, Ctx(2))}

\* one whole call of advanceToStep / updateWorkflowContext; inflight holds the
\* last call
InstanceCall(call, id) ==
    /\ budget.ops < MaxOps
    /\ budget' = [budget EXCEPT !.ops = @ + 1]
    /\ workflows' = ApplyCall(call, workflows, id)
    /\ inflight' = {[call |-> call, id |-> id, n |-> budget.ops]}
    /\ UNCHANGED <<registry, steps, comps, clock, bus, emitted, hist, refunds>>

NextInstance == \E call \in InstanceCalls, id \in WorkflowIds : InstanceCall(call, id)

SpecInstance == InitInstance /\ [][NextInstance]_vars

-----------------------------------------------------------------------------
(* Pause *)

\* C27: pauseWorkflow sets the status to waiting only if the stored status is
\* running; on a workflow in any other status it changes neither the status
\* nor currentStep.
C27_PauseOnlyFromRunning ==
    [][\A id \in MainIds, waitingFor \in WaitingFors :
          PauseWorkflow(id, waitingFor)
             => IF workflows[id].status = "running"
                THEN workflows'[id].status = "waiting"
                ELSE /\ workflows'[id].status = workflows[id].status
                     /\ workflows'[id].currentStep = workflows[id].currentStep]_vars

-----------------------------------------------------------------------------
(* startCompensation *)

\* a compensation chain was started for the workflow: startCompensation
\* emitted execute-compensation for its head, or finished it at once
ChainStarted(id) ==
    \E e \in DOMAIN emitted :
        e.wf = id /\ e.topic \in {EXECUTE_COMPENSATION, COMPENSATION_FINISHED}

\* C28: startCompensation on a failed workflow sets the status to
\* compensating and emits execute-compensation for the head of the pending
\* listing, or with nothing pending sets the status to compensated and emits
\* compensation-finished; on a workflow in another status it writes nothing
\* and emits nothing; and once a chain was started for the workflow, a further
\* delivery of compensate starts no second one.
C28_StartCompensationOnce ==
    [][\A e \in bus :
          (/\ e.topic = COMPENSATE /\ e.wf \in DOMAIN workflows
           /\ \E pending \in getPendingCompensations(comps, e.wf) : StartCompensation(e, pending))
             => IF workflows[e.wf].status = "failed" /\ ~ChainStarted(e.wf)
                THEN /\ steps' = steps /\ comps' = comps
                     /\ IF Pending(comps, e.wf) = {}
                        THEN /\ workflows'[e.wf].status = "compensated"
                             /\ emitted' = Counted(emitted, {CompensationFinishedEvent(e.wf)})
                             /\ bus' = bus \ {e}
                        ELSE /\ workflows'[e.wf].status = "compensating"
                             /\ \E key \in FirstPending(comps, e.wf) :
                                   LET ev == ExecuteCompensationEvent(key[1], key[2], comps[key].compensationStep)
                                   IN  emitted' = Counted(emitted, {ev}) /\ bus' = (bus \ {e}) \cup {ev}
                ELSE /\ UNCHANGED <<workflows, steps, comps, emitted>>
                     /\ bus' = bus \ {e}]_vars

-----------------------------------------------------------------------------
(* registerCompensation on a stored compensation record: the store starts    *)
(* with no record or with one, executed or not, and registerCompensation and *)
(* markCompensationExecuted are called on it                                 *)

CompensationSteps == {"UndoDebit", "UndoCredit"}

\* a stored compensation record, registered at time 0
CompensationRecord(compensationStep, executed) ==
    [compensationStep |-> compensationStep, registeredAt |-> 0, executed |-> executed,
     result |-> IF executed THEN "success" ELSE Undef, error |-> Undef]

CompensationStores ==
    {<<>>} \cup {Put(<<>>, <<"wf1", "Debit">>, CompensationRecord(compensationStep, executed)) :
                    compensationStep \in CompensationSteps, executed \in BOOLEAN}

InitCompensation ==
    /\ registry = <<>> /\ workflows = <<>> /\ steps = <<>>
    /\ comps \in CompensationStores
    /\ clock = 0 /\ bus = {} /\ emitted = <<>>
    /\ budget = [redeliver |-> 0, pause |-> 0, crash |-> 0, ops |-> 0, signals |-> 0, stray |-> 0,
                 starts |-> [id \in WorkflowIds |-> 0]]
    /\ hist = [completed |-> {}, handled |-> {}, compLog |-> <<>>, errors |-> {}]
    /\ inflight = {}
    /\ refunds = <<>>

\* one whole call of registerCompensation at the next clock value; inflight
\* holds the last call with the record it returned
RegisterCompensationCall(id, stepName, compensationStep) ==
    /\ budget.ops < MaxOps
    /\ budget' = [budget EXCEPT !.ops = @ + 1]
    /\ clock' = clock + 1
    /\ comps' = registerCompensation(comps, id, stepName, compensationStep, clock')
    /\ inflight' = {[call |-> "registerCompensation", id |-> id, step |-> stepName,
                     comp |-> compensationStep, n |-> budget.ops,
                     ret |-> comps'[<<id, stepName>>]]}
    /\ UNCHANGED <<registry, workflows, steps, bus, emitted, hist, refunds>>

\* one whole call of markCompensationExecuted
MarkCompensationExecutedCall(id, stepName, result) ==
    /\ budget.ops < MaxOps
    /\ budget' = [budget EXCEPT !.ops = @ + 1]
    /\ comps' = markCompensationExecuted(comps, id, stepName, result, Undef)
    /\ inflight' = {}
    /\ UNCHANGED <<registry, workflows, steps, clock, bus, emitted, hist, refunds>>

NextCompensation ==
    \/ \E id \in MainIds, stepName \in RecordSteps, compensationStep \in CompensationSteps :
          RegisterCompensationCall(id, stepName, compensationStep)
    \/ \E id \in MainIds, stepName \in RecordSteps, result \in {"success", "failed"} :
          MarkCompensationExecutedCall(id, stepName, result)

SpecCompensation == InitCompensation /\ [][NextCompensation]_vars

\* C29: registerCompensation called for a (workflowId, stepName) that already
\* has a record returns that record and leaves the store unchanged, so its
\* registeredAt, compensationStep, executed and result stay as they were, also
\* when the record is executed; called when there is none it creates a record
\* that is not executed and has the time of the call.
C29_RegisterIdempotent ==
    [][\A id \in MainIds, stepName \in RecordSteps, compensationStep \in CompensationSteps :
          RegisterCompensationCall(id, stepName, compensationStep)
             => LET key == <<id, stepName>> IN
                /\ key \in DOMAIN comps
                      => /\ comps' = comps
                         /\ \A r \in inflight' : r.ret = comps[key]
                /\ key \notin DOMAIN comps
                      => /\ comps'[key].registeredAt = clock' /\ ~comps'[key].executed
                         /\ comps'[key].compensationStep = compensationStep
                         /\ \A other \in DOMAIN comps : comps'[other] = comps[other]]_vars

\* C29 witness: the third call registered another compensation for a record
\* that is executed and got that record back, with its old registeredAt
C29_Witness ==
    \E r \in inflight :
        /\ r.call = "registerCompensation" /\ r.n = 2
        /\ r.ret.executed /\ r.ret.result = "failed"
        /\ r.ret.compensationStep # r.comp /\ r.ret.registeredAt < clock
        /\ comps[<<r.id, r.step>>] = r.ret

-----------------------------------------------------------------------------
(* Serial progress within one workflow *)

\* the step executions of the workflow that are running
RunningSteps(id) == {key \in DOMAIN steps : key[1] = id /\ steps[key].status = "running"}

\* the compensations of the workflow for which execute-compensation was
\* emitted and whose record is not marked executed
DispatchedCompensations(id) ==
    {key \in DOMAIN comps :
        /\ key[1] = id /\ ~comps[key].executed
        /\ EmitCount(emitted, ExecuteCompensationEvent(key[1], key[2], comps[key].compensationStep)) > 0}

\* C30: in every reachable state a workflow has at most one step execution
\* with status running and at most one compensation that was dispatched and
\* is not yet marked executed.
C30_SerialProgress ==
    \A id \in WorkflowIds :
        /\ Cardinality(RunningSteps(id)) <= 1
        /\ Cardinality(DispatchedCompensations(id)) <= 1

-----------------------------------------------------------------------------
(* Context carried from step to step *)

\* the context holds every value of the output
Sees(context, output) == Merge(context, output) = context

\* C31: the next step is dispatched with the workflow context overridden by
\* the output of the step before it: every event emitted on the topic of a
\* step that has a predecessor in the definition carries a context that holds
\* the predecessor's output, and so does the input snapshot of its step
\* execution.
C31_NextStepSeesOutputs ==
    \A e \in DOMAIN emitted :
        (e.topic \in StepTopics(registry) /\ e.wf \in DOMAIN workflows /\ Pos(e.wf, e.step) > 1)
           => LET previous == registry[workflows[e.wf].type][Pos(e.wf, e.step) - 1].name
              IN  /\ \E output \in OutputsOf(previous) : Sees(e.ctx, output)
                  /\ <<e.wf, e.step>> \in DOMAIN steps
                  /\ \E output \in OutputsOf(previous) : Sees(steps[<<e.wf, e.step>>].input, output)

-----------------------------------------------------------------------------
(* Specification of the registry: workflowRegistry.register is called with   *)
(* definitions of types that are registered or not; inflight holds the last  *)
(* call and whether it threw                                                 *)

RegisterTypes == {"OrderWorkflow", "Transfer"}
RegisterDefinitions == {OrderWorkflowDefinition, TransferDefinition, EmptyDefinition}

\* register that replaces the definition of a type already registered
registerReplace(reg, type, definition) == Put(reg, type, definition)

\* workflowRegistry.register: the workflows Map after the call
register(reg, type, definition) ==
    IF RegistryHas(reg, type) THEN reg ELSE Put(reg, type, definition)

\* a call of workflowRegistry.register({type, steps}), throwing or not
RegisterCall(type, definition) ==
    /\ budget.ops < MaxOps
    /\ budget' = [budget EXCEPT !.ops = @ + 1]
    /\ registry' = register(registry, type, definition)
    /\ inflight' = {[call |-> "register", type |-> type, definition |-> definition,
                     n |-> budget.ops, threw |-> RegistryHas(registry, type)]}
    /\ UNCHANGED <<workflows, steps, comps, clock, bus, emitted, hist, refunds>>

NextRegistry ==
    \E type \in RegisterTypes, definition \in RegisterDefinitions : RegisterCall(type, definition)

SpecRegistry == Init /\ [][NextRegistry]_vars

\* C32: register of a type that is already registered throws and leaves the
\* registry unchanged, so get, getStep, getFirstStep and getNextStep keep
\* returning the first definition and its steps; register of a new type does
\* not throw, makes get return the definition, and leaves the other types.
C32_RegisterDuplicateThrows ==
    [][\A type \in RegisterTypes, definition \in RegisterDefinitions :
          RegisterCall(type, definition)
             => IF RegistryHas(registry, type)
                THEN /\ \A r \in inflight' : r.threw
                     /\ registry' = registry
                     /\ \A stepName \in StepNames :
                           /\ GetStep(registry', type, stepName) = GetStep(registry, type, stepName)
                           /\ HasNextStep(registry', type, stepName) = HasNextStep(registry, type, stepName)
                           /\ HasNextStep(registry, type, stepName)
                                 => GetNextStep(registry', type, stepName) = GetNextStep(registry, type, stepName)
                     /\ HasFirstStep(registry', type) = HasFirstStep(registry, type)
                     /\ HasFirstStep(registry, type) => GetFirstStep(registry', type) = GetFirstStep(registry, type)
                ELSE /\ \A r \in inflight' : ~r.threw
                     /\ RegistryHas(registry', type) /\ registry'[type] = definition
                     /\ \A other \in DOMAIN registry : registry'[other] = registry[other]]_vars

\* C32 witness: the third call threw on a type registered with another
\* definition, whose first step is still the one of the first definition
C32_Witness ==
    \E r \in inflight :
        /\ r.call = "register" /\ r.threw /\ r.n = 2
        /\ r.type = "Transfer" /\ r.definition = OrderWorkflowDefinition
        /\ registry["Transfer"] = TransferDefinition
        /\ GetFirstStep(registry, "Transfer").name = "Debit"
        /\ "OrderWorkflow" \in DOMAIN registry

-----------------------------------------------------------------------------
(* The RefundPayment compensation handler. An invocation suspends at each    *)
(* await (state.get, paymentService.refund, state.set, emit), and other      *)
(* invocations run in between. inflight holds one record per invocation:     *)
(* its input, its position, the attempt number, the calls it made to         *)
(* paymentService.refund, the refunds the payment service performed for it,  *)
(* and the compensation-completed events it emitted.                         *)

MaxInvocations == 2      \* invocations of the RefundPayment handler
MAX_RETRIES == 3         \* CONFIG.MAX_RETRIES

\* originalOutput.transactionId ("": missing or blank) and the amount
TransactionIds == {"", "tx1"}
Amounts == {0, 25}

\* What one call of withTimeout(paymentService.refund(..)) does: it returns a
\* result, or it throws an error that is retryable (service unavailable, the
\* timeout) or not (declined). A call that throws performs no refund.
RefundOutcomes == {"refunded", "unavailable", "declined", "timeout"}

isRetryableError(outcome) == outcome \in {"unavailable", "timeout"}

RefundPerformed(outcome) == outcome = "refunded"

generateIdempotencyKey(id, transactionId) == <<"refund", id, transactionId>>

RefundInvocations == {r \in inflight : r.call = "RefundPayment"}

\* the compensation-completed event of an invocation
RefundCompleted(r, success, error) ==
    CompensationCompletedEvent(r.id, "ChargePayment", success, error)

\* the invocation r goes on as record s, emitting the events in out
RefundStep(r, s, out) ==
    /\ inflight' = (inflight \ {r}) \cup {[s EXCEPT !.emits = @ + Cardinality(out)]}
    /\ Emit(out)
    /\ UNCHANGED <<registry, workflows, steps, comps, clock, budget, hist>>

\* the handler is invoked: input validation, up to the await of state.get
RefundPaymentStart(id, transactionId, amount) ==
    /\ budget.ops < MaxInvocations
    /\ budget' = [budget EXCEPT !.ops = @ + 1]
    /\ LET r == [call |-> "RefundPayment", n |-> budget.ops, id |-> id, tx |-> transactionId,
                 amount |-> amount, pc |-> "get", attempt |-> 0, calls |-> 0, performed |-> 0,
                 last |-> Undef, emits |-> 0, exit |-> Undef]
       IN  IF transactionId = "" \/ amount <= 0
           THEN /\ inflight' = inflight \cup {[r EXCEPT !.pc = "done", !.exit = "invalid", !.emits = 1]}
                /\ Emit({RefundCompleted(r, FALSE, "invalid")})
           ELSE /\ inflight' = inflight \cup {r}
                /\ UNCHANGED <<bus, emitted>>
    /\ UNCHANGED <<registry, workflows, steps, comps, clock, hist, refunds>>

\* state.get of the refund record returns: idempotent skip, or the retry loop starts
RefundPaymentGet(r) ==
    /\ r \in RefundInvocations /\ r.pc = "get"
    /\ refunds' = refunds
    /\ IF generateIdempotencyKey(r.id, r.tx) \in DOMAIN refunds
       THEN RefundStep(r, [r EXCEPT !.pc = "done", !.exit = "skip"], {RefundCompleted(r, TRUE, Undef)})
       ELSE RefundStep(r, [r EXCEPT !.pc = "refund", !.attempt = 1], {})

\* the attempt of a handler that retries after every error
RefundPaymentAttemptRetryAll(r, outcome) ==
    /\ r \in RefundInvocations /\ r.pc = "refund"
    /\ refunds' = refunds
    /\ LET called == [r EXCEPT !.calls = @ + 1, !.last = outcome,
                               !.performed = @ + (IF RefundPerformed(outcome) THEN 1 ELSE 0)]
       IN  IF outcome = "refunded"
           THEN RefundStep(r, [called EXCEPT !.pc = "set"], {})
           ELSE IF r.attempt < MAX_RETRIES
           THEN RefundStep(r, [called EXCEPT !.attempt = @ + 1], {})
           ELSE RefundStep(r, [called EXCEPT !.pc = "done", !.exit = "failed"],
                           {RefundCompleted(r, FALSE, outcome)})

\* one attempt of the retry loop: the call of paymentService.refund returns
\* or throws; after a retryable error and fewer than MAX_RETRIES attempts the
\* loop goes on, otherwise the failure is emitted
RefundPaymentAttempt(r, outcome) ==
    /\ r \in RefundInvocations /\ r.pc = "refund"
    /\ refunds' = refunds
    /\ LET called == [r EXCEPT !.calls = @ + 1, !.last = outcome,
                               !.performed = @ + (IF RefundPerformed(outcome) THEN 1 ELSE 0)]
       IN  IF outcome = "refunded"
           THEN RefundStep(r, [called EXCEPT !.pc = "set"], {})
           ELSE IF r.attempt < MAX_RETRIES /\ isRetryableError(outcome)
           THEN RefundStep(r, [called EXCEPT !.attempt = @ + 1], {})
           ELSE RefundStep(r, [called EXCEPT !.pc = "done", !.exit = "failed"],
                           {RefundCompleted(r, FALSE, outcome)})

\* state.set of the refund record under the idempotency key
RefundPaymentSet(r) ==
    /\ r \in RefundInvocations /\ r.pc = "set"
    /\ refunds' = Put(refunds, generateIdempotencyKey(r.id, r.tx),
                      [refundId |-> r.n, transactionId |-> r.tx, amount |-> r.amount, workflowId |-> r.id])
    /\ RefundStep(r, [r EXCEPT !.pc = "emit"], {})

\* the notification (its failure is swallowed) and the emit of the success
RefundPaymentEmit(r) ==
    /\ r \in RefundInvocations /\ r.pc = "emit"
    /\ refunds' = refunds
    /\ RefundStep(r, [r EXCEPT !.pc = "done", !.exit = "success"], {RefundCompleted(r, TRUE, Undef)})

\* the next step of invocation number n
RefundPaymentNext(n) ==
    \E r \in RefundInvocations :
        /\ r.n = n
        /\ \/ RefundPaymentGet(r)
           \/ \E outcome \in RefundOutcomes : RefundPaymentAttempt(r, outcome)
           \/ RefundPaymentSet(r)
           \/ RefundPaymentEmit(r)

NextRefund ==
    \/ \E id \in MainIds, transactionId \in TransactionIds, amount \in Amounts :
          RefundPaymentStart(id, transactionId, amount)
    \/ \E n \in 0..(MaxInvocations - 1) : RefundPaymentNext(n)

\* every await of an invocation returns
SpecRefund ==
    Init /\ [][NextRefund]_vars /\ \A n \in 0..(MaxInvocations - 1) : WF_vars(RefundPaymentNext(n))

\* the refunds the payment service performed for the invocations in S
RECURSIVE RefundsPerformed(_)
RefundsPerformed(S) ==
    IF S = {} THEN 0
    ELSE LET r == CHOOSE x \in S : TRUE IN r.performed + RefundsPerformed(S \ {r})

\* C33: over all invocations of the RefundPayment handler for one workflowId
\* and transactionId the payment service performs at most one refund, and an
\* invocation that finds the refund record emits success without calling
\* paymentService.refund.
C33_RefundAtMostOnce ==
    /\ \A id \in MainIds, transactionId \in TransactionIds :
          RefundsPerformed({r \in RefundInvocations : r.id = id /\ r.tx = transactionId}) <= 1
    /\ \A r \in RefundInvocations : r.exit = "skip" => r.calls = 0 /\ r.emits = 1


\* an invocation has emitted nothing before its exit and exactly one
\* compensation-completed at its exit, and has called paymentService.refund
\* at most MAX_RETRIES times
RefundInvocationBounded(r) ==
    /\ r.calls <= MAX_RETRIES
    /\ r.emits = (IF r.pc = "done" THEN 1 ELSE 0)
    /\ r.pc = "done" <=> r.exit \in {"invalid", "skip", "success", "failed"}
    /\ r.pc = "done" =>
          \E e \in DOMAIN emitted :
              e.topic = COMPENSATION_COMPLETED /\ e.wf = r.id /\ e.step = "ChargePayment"
                 /\ e.ok = (r.exit \in {"skip", "success"})

\* C34: every invocation of the RefundPayment handler ends, and on each exit
\* path (invalid input, idempotent skip, success, failure) it has emitted
\* exactly one compensation-completed for the original step; it calls
\* paymentService.refund at most 3 times, and calls it again only after a
\* retryable error.
C34_RefundEmitsOnce ==
    /\ [](\A r \in RefundInvocations : RefundInvocationBounded(r))
    /\ [][\A r \in RefundInvocations, outcome \in RefundOutcomes :
             (RefundPaymentAttempt(r, outcome) /\ r.calls > 0) => isRetryableError(r.last)]_vars
    /\ \A n \in 0..(MaxInvocations - 1) :
          (\E r \in RefundInvocations : r.n = n) ~> (\E r \in RefundInvocations : r.n = n /\ r.pc = "done")

\* C34 witness: an invocation gave up after three calls that failed with
\* retryable errors, another one succeeded with its second call
C34_Witness ==
    /\ \E r \in RefundInvocations :
          r.pc = "done" /\ r.exit = "failed" /\ r.calls = 3 /\ r.emits = 1 /\ r.last = "timeout"
    /\ \E r \in RefundInvocations : r.pc = "done" /\ r.exit = "success" /\ r.calls = 2 /\ r.emits = 1

-----------------------------------------------------------------------------
(* A waiting workflow *)

\* the events that start or dispatch a step of the workflow
StepDispatches(id) ==
    {e \in DOMAIN emitted' : e.wf = id /\ e.topic \in {EXECUTE_STEP} \cup StepTopics(registry)}

\* C35: while the status of a workflow is waiting, no step other than
\* resumeWorkflow emits execute-step or an event on a step topic for it,
\* changes its currentStep, or completes it.
C35_WaitingMakesNoProgress ==
    [][\A id \in MainIds :
          (/\ id \in DOMAIN workflows /\ workflows[id].status = "waiting"
           /\ ~\E signal \in Signals, payload \in Payloads : ResumeWorkflow(id, signal, payload))
             => /\ \A e \in StepDispatches(id) : EmitCount(emitted', e) = EmitCount(emitted, e)
                /\ workflows'[id].currentStep = workflows[id].currentStep
                /\ workflows'[id].status # "completed"]_vars

-----------------------------------------------------------------------------
(* A finished workflow *)

\* the events on a step topic or on a compensate.<name> topic of the workflow
BusinessDispatches(id) ==
    {e \in DOMAIN emitted' :
        e.wf = id /\ e.topic \in StepTopics(registry) \cup CompensateTopics(registry)}

\* C36: once the status of a workflow is completed or compensated, no step
\* emits an event for it on a step topic or on a compensate.<name> topic,
\* and none changes its status.
C36_FinishedStaysFinished ==
    [][\A id \in MainIds :
          (id \in DOMAIN workflows /\ workflows[id].status \in {"completed", "compensated"})
             => /\ workflows'[id].status = workflows[id].status
                /\ \A e \in BusinessDispatches(id) : EmitCount(emitted', e) = EmitCount(emitted, e)]_vars


\* C37: a workflow whose status is compensated has no pending compensation:
\* every compensation record of it is executed, so none was registered after
\* the compensation finished.
C37_CompensatedHasNoPending ==
    \A id \in MainIds :
        (id \in DOMAIN workflows /\ workflows[id].status = "compensated") => Pending(comps, id) = {}


\* C38: a workflow has status completed only if every step of its definition
\* has a step execution with status completed.
C38_CompletedHasAllSteps ==
    \A id \in MainIds :
        (id \in DOMAIN workflows /\ workflows[id].status = "completed")
           => \A i \in 1..Len(registry[workflows[id].type]) :
                 StepStatusIs(id, registry[workflows[id].type][i].name, "completed")


\* C39: if failedStep of a workflow is set, the step execution of that step
\* has status failed; a step-failed event for a step whose record is
\* completed, or that has no record, does not mark the workflow failed.
C39_FailedStepIsFailed ==
    \A id \in MainIds :
        (id \in DOMAIN workflows /\ workflows[id].failedStep # Undef)
           => StepStatusIs(id, workflows[id].failedStep, "failed")

-----------------------------------------------------------------------------
(* Specification of two workflows: both are started and the handlers of      *)
(* their events run in any interleaving; every event is delivered once       *)

NextTwo ==
    \/ \E type \in MainTypes : Register(type)
    \/ \E type \in MainTypes, input \in Inputs, id \in WorkflowIds : StartWorkflow(type, input, id, FALSE)
    \/ \E e \in bus : Deliver(e, {1})

SpecTwo == Init /\ [][NextTwo]_vars

\* the instance, the step executions and the compensation records of a workflow
RecordsOf(wfs, sx, cx, id) ==
    <<IF id \in DOMAIN wfs THEN <<wfs[id]>> ELSE <<>>,
      [key \in {k \in DOMAIN sx : k[1] = id} |-> sx[key]],
      [key \in {k \in DOMAIN cx : k[1] = id} |-> cx[key]]>>

\* C40: handling an event of a workflow, or starting a workflow, leaves the
\* instance, the step executions and the compensation records of every other
\* workflow unchanged, whatever the interleaving of the two workflows.
C40_WorkflowsIsolated ==
    [][\A id \in WorkflowIds : \A other \in WorkflowIds \ {id} :
          (\/ \E e \in bus : e.wf = id /\ Deliver(e, {1})
           \/ \E type \in MainTypes, input \in Inputs : StartWorkflow(type, input, id, FALSE))
             => RecordsOf(workflows', steps', comps', other) = RecordsOf(workflows, steps, comps, other)]_vars

\* C40 witness: one workflow was compensated while the other one ran to its
\* end, and each has its own records
C40_Witness ==
    /\ "wf1" \in DOMAIN workflows /\ workflows["wf1"].status = "compensated"
    /\ "wf2" \in DOMAIN workflows /\ workflows["wf2"].status = "completed"
    /\ {<<"wf1", "Debit">>, <<"wf2", "Debit">>} \subseteq DOMAIN comps
    /\ comps[<<"wf1", "Debit">>].executed /\ ~comps[<<"wf2", "Debit">>].executed
    /\ StepStatusIs("wf1", "Credit", "failed") /\ StepStatusIs("wf2", "Credit", "completed")

=============================================================================
